---- MODULE Spec2Model ----
(***************************************************************************)
(* Hebbian memory engine: the SQLite store (memories, co_occurrences),     *)
(* the retrieval pipeline, the activation and co-occurrence writers, the   *)
(* ingestion paths and the supervision (deprecate / correct) operations.   *)
(*                                                                         *)
(* Units.  Activations and scoring weights are integers in tenths (0.5 is  *)
(* 5), cosine similarities are integers in ten-thousandths (0.30 is 3000), *)
(* bonuses and penalties are in thousandths, character counts are plain    *)
(* integers.  Floating-point rounding is not modelled.                     *)
(* A NULL text column is the string "NULL", a NULL embedding is <<>>.      *)
(***************************************************************************)
EXTENDS Integers, Sequences, FiniteSets, TLC

VARIABLES mem, cooc, op, ret, writes, embeddingCache, clock, handlers, meta, files, conn

\* The store and the record of the last call.
\*   mem, cooc      tables memories and co_occurrences
\*   op, ret        the last call and what it returned
\*   writes         calls that changed a table so far
\* The plugin process.
\*   embeddingCache the Map of getEmbedding, in insertion order
\*   clock          Date.now()
\*   handlers       the before_agent_start handlers in flight
\*   conn           the connection: whether db is open, and the state of the
\*                  module's cached prepared statements
\* The atomizer's change detection.
\*   meta           table meta: the stored hash of each source file
\*   files          the source files on disk
vars == <<mem, cooc, op, ret, writes, embeddingCache, clock, handlers, meta, files, conn>>

\* What the store operations leave alone: the plugin's process state and the
\* atomizer's files and hashes.
outside == <<embeddingCache, clock, handlers, meta, files, conn>>

NULL == "NULL"
NoEmb == <<>>

\* The row a SELECT finds nothing for.
NoRow == [exists |-> FALSE]

\* The before_agent_start handlers that can be in flight at once.
HandlerIds == {1, 2}

\* A handler slot with no call in it.
IdleHandler == [pc |-> "idle"]

\* The markdown files the atomizer scans.
Files == {"f1", "f2"}

\* What a file can hold: text yielding the candidate m1, text yielding m1 and
\* m3, and text in which parseSection finds no pattern.
Contents == {"one", "two", "plain"}

\* A process start: empty cache, no handler in flight, no hash stored yet for
\* the files on disk (`seen` records that an extract run has read the content
\* the file now has).
\* The connection of a process that has opened the store and prepared its
\* statements: `db` is whether the handle is set, `stmts` whether the
\* prepared statements are not made yet ("none"), made on the open connection
\* ("ready") or made on a connection closed since ("stale").
OpenConn == [db |-> TRUE, stmts |-> "ready"]

OutsideInit ==
  /\ embeddingCache = <<>>
  /\ clock = 0
  /\ handlers = [h \in HandlerIds |-> IdleHandler]
  /\ meta = [f \in Files |-> NULL]
  /\ files \in [Files -> {[content |-> c, seen |-> FALSE] : c \in {"plain"}}]
  /\ conn = OpenConn

(***************************************************************************)
(* Vector math                                                             *)
(***************************************************************************)

\* Embedding vectors the oracle can produce (two dimensions stand for 768;
\* every norm is a perfect square, so each cosine is an exact decimal).
Vecs == {<<1, 0>>, <<3, 4>>, <<7, 24>>, <<24, 7>>, <<0, 1>>}

Dot(a, b) == a[1] * b[1] + a[2] * b[2]

Sqrt(n) == CHOOSE r \in 0..n : r * r = n

\* cosineSimilarity(a, b), in ten-thousandths.
cosineSimilarity(a, b) ==
  IF a = NoEmb \/ b = NoEmb \/ Len(a) # Len(b) THEN 0
  ELSE LET denom == Sqrt(Dot(a, a)) * Sqrt(Dot(b, b))
       IN IF denom = 0 THEN 0 ELSE (Dot(a, b) * 10000) \div denom

(***************************************************************************)
(* Sequence helpers standing for Array.prototype methods                   *)
(***************************************************************************)

Range(s) == {s[i] : i \in 1..Len(s)}

Min(a, b) == IF a < b THEN a ELSE b
Max(a, b) == IF a > b THEN a ELSE b

Take(s, n) == SubSeq(s, 1, Min(n, Len(s)))

\* Array.prototype.sort with comparator (a, b) => k[b] - k[a]: stable, descending.
RECURSIVE StableSortDesc(_, _)
StableSortDesc(s, k) ==
  IF s = <<>> THEN <<>>
  ELSE LET init == StableSortDesc(SubSeq(s, 1, Len(s) - 1), k)
           x == s[Len(s)]
           pos == Cardinality({i \in 1..Len(init) : k[init[i]] >= k[x]})
       IN SubSeq(init, 1, pos) \o <<x>> \o SubSeq(init, pos + 1, Len(init))

\* Array.prototype.sort with comparator (a, b) => a - b on numbers.
RECURSIVE SortAsc(_)
SortAsc(s) ==
  IF s = <<>> THEN <<>>
  ELSE LET init == SortAsc(SubSeq(s, 1, Len(s) - 1))
           x == s[Len(s)]
           pos == Cardinality({i \in 1..Len(init) : init[i] <= x})
       IN SubSeq(init, 1, pos) \o <<x>> \o SubSeq(init, pos + 1, Len(init))

\* [...new Set(s)] : first occurrences, in order.
RECURSIVE Distinct(_)
Distinct(s) ==
  IF s = <<>> THEN <<>>
  ELSE LET init == Distinct(SubSeq(s, 1, Len(s) - 1))
       IN IF s[Len(s)] \in Range(init) THEN init ELSE Append(init, s[Len(s)])

RECURSIVE Flatten(_)
Flatten(ss) == IF ss = <<>> THEN <<>> ELSE Head(ss) \o Flatten(Tail(ss))

(***************************************************************************)
(* Store reads                                                             *)
(***************************************************************************)

StoreIds(m) == DOMAIN m

Exists(m, id) == id \in DOMAIN m /\ m[id].exists

\* status = 'active' OR status IS NULL
IsActive(row) == row.status = "active" \/ row.status = NULL

\* mem.domain || "general"
DomKey(row) == IF row.domain = NULL \/ row.domain = "" THEN "general" ELSE row.domain

\* (entry.detail || entry.title || "").length
DetailLen(row) == IF row.detailLen > 0 THEN row.detailLen ELSE row.titleLen

EntryOverhead == 20

\* detail.length + 20 : the characters an entry is charged.
EntryChars(row) == DetailLen(row) + EntryOverhead

\* ORDER BY activation DESC over the rows of `s` (ties in physical row order).
ByActivationDesc(m, s) == StableSortDesc(s, [id \in Range(s) |-> m[id].activation])

(***************************************************************************)
(* Co-occurrence engine reads                                              *)
(***************************************************************************)

NeighbourLimit == 20
SpreadLimit == 8

\* A neighbour query without its LIMIT.
getCoOccurrencesUnlimited(c, id, order, lim) ==
  LET HasEdge(b) == c[<<id, b>>] > 0
      out == SelectSeq(order, HasEdge)
  IN StableSortDesc(out, [b \in Range(out) |-> c[<<id, b>>]])

\* stmts.getCoOccurrences: memory_b of the edges out of `id`, by weight DESC.
getCoOccurrences(c, id, order, lim) ==
  LET HasEdge(b) == c[<<id, b>>] > 0
      out == SelectSeq(order, HasEdge)
  IN Take(StableSortDesc(out, [b \in Range(out) |-> c[<<id, b>>]]), lim)

\* The (related_id, weight) pairs getSpreadingActivation meets, in loop order.
RECURSIVE SpreadEncounters(_, _, _, _)
SpreadEncounters(c, activeIds, activeSet, order) ==
  IF activeIds = <<>> THEN <<>>
  ELSE LET id == Head(activeIds)
           rel == getCoOccurrences(c, id, order, NeighbourLimit)
           NotActive(b) == b \notin activeSet
           fresh == SelectSeq(rel, NotActive)
       IN [i \in 1..Len(fresh) |-> <<fresh[i], c[<<id, fresh[i]>>]>>]
          \o SpreadEncounters(c, Tail(activeIds), activeSet, order)

RECURSIVE SumWeights(_, _)
SumWeights(enc, id) ==
  IF enc = <<>> THEN 0
  ELSE (IF Head(enc)[1] = id THEN Head(enc)[2] ELSE 0) + SumWeights(Tail(enc), id)

\* boosts[related_id], in tenths: weight * 0.3 summed over the encounters.
SpreadBoost(enc, id) == 3 * SumWeights(enc, id)

\* A spread that does not pass over the active ids.
getSpreadingActivationAll(m, c, activeIds, lim, order) ==
  LET enc == SpreadEncounters(c, activeIds, {}, order)
      keys == Distinct([i \in 1..Len(enc) |-> enc[i][1]])
      sorted == StableSortDesc(keys, [id \in Range(keys) |-> SpreadBoost(enc, id)])
      HasRow(id) == Exists(m, id)
  IN SelectSeq(Take(sorted, lim), HasRow)

\* getSpreadingActivation(db, activeIds, limit): ids in boost order, each with
\* its memory row; an id without a row is filtered out.
getSpreadingActivation(m, c, activeIds, lim, order) ==
  LET enc == SpreadEncounters(c, activeIds, Range(activeIds), order)
      keys == Distinct([i \in 1..Len(enc) |-> enc[i][1]])
      sorted == StableSortDesc(keys, [id \in Range(keys) |-> SpreadBoost(enc, id)])
      HasRow(id) == Exists(m, id)
  IN SelectSeq(Take(sorted, lim), HasRow)

(***************************************************************************)
(* Retrieval pipeline                                                      *)
(***************************************************************************)

SemanticFloor == 3000
MaxPerDomain == 3
FallbackLimit == 100
ActOne == 10

\* A candidate scan that ignores the domain hints when there is no embedding.
CandidatesIgnoringHints(m, o, order) ==
  LET Live(id) == Exists(m, id) /\ IsActive(m[id])
      WithEmb(id) == Live(id) /\ m[id].embedding # NoEmb
  IN IF o.queryEmbedding # NoEmb
       THEN SelectSeq(order, WithEmb)
     ELSE Take(ByActivationDesc(m, SelectSeq(order, Live)), FallbackLimit)

\* The candidate scan of retrieve, as a sequence of ids in result order.
\* `order` is the physical row order of the memories table.
Candidates(m, o, order) ==
  LET Live(id) == Exists(m, id) /\ IsActive(m[id])
      WithEmb(id) == Live(id) /\ m[id].embedding # NoEmb
  IN IF o.queryEmbedding # NoEmb
       THEN SelectSeq(order, WithEmb)
     ELSE IF Len(o.domains) > 0
       THEN Flatten([i \in 1..Len(o.domains) |->
              LET InDomain(id) == Live(id) /\ m[id].domain = o.domains[i]
              IN ByActivationDesc(m, SelectSeq(order, InDomain))])
     ELSE Take(ByActivationDesc(m, SelectSeq(order, Live)), FallbackLimit)

\* activations[Math.floor(activations.length * 0.95)] || 1, then Math.max(p95, 1)
MaxActivation(m, cands) ==
  LET acts == SortAsc([i \in 1..Len(cands) |-> m[cands[i]].activation])
      p95 == acts[((Len(acts) * 95) \div 100) + 1]
  IN Max(IF p95 = 0 THEN ActOne ELSE p95, ActOne)

SemanticSim(row, o) ==
  IF o.queryEmbedding # NoEmb /\ row.embedding # NoEmb
    THEN cosineSimilarity(o.queryEmbedding, row.embedding)
    ELSE 0

\* Bonuses minus penalties, in thousandths.
Adjustments(row, o) ==
    (IF row.last_retrieved # NULL THEN 30 ELSE 0)
  + (IF Len(o.domains) > 0 /\ row.domain # NULL /\ row.domain # ""
        /\ \E i \in 1..Len(o.domains) : row.domain = o.domains[i]
       THEN 100 * o.domainWeight ELSE 0)
  + (IF row.pattern_type \in {"rule", "directive"} THEN 80 ELSE 0)
  + (IF row.pattern_type \in {"correction", "bug-insight"} THEN 50 ELSE 0)
  + (IF row.pattern_type = "command" THEN 40 ELSE 0)
  + (IF row.pattern_type = "solution" THEN 30 ELSE 0)
  - (IF DomKey(row) = "general" THEN 200 ELSE 0)
  - (IF row.dailyLog THEN 250 ELSE 0)
  - (IF row.pattern_type = NULL THEN 100 ELSE 0)
  - (IF DetailLen(row) < 20 THEN 150 ELSE 0)

\* normAct = Math.min((entry.activation || 0) / maxActivation, 1), times maxAct.
normAct(row, maxAct) == Min(row.activation, maxAct)

\* The score of a candidate times 10^5 * maxAct (maxAct > 0 is the same for
\* every candidate of one call, so the order of scores is kept).
Score(row, o, maxAct) ==
    maxAct * (SemanticSim(row, o) * o.semanticWeight + 100 * Adjustments(row, o))
  + normAct(row, maxAct) * 10000 * o.activationWeight

\* The scored list after the hard floor and scored.sort.
Ranked(m, o, order) ==
  LET cands == Candidates(m, o, order)
      maxAct == MaxActivation(m, cands)
      AboveFloor(id) == ~(o.queryEmbedding # NoEmb /\ SemanticSim(m[id], o) < SemanticFloor)
      kept == SelectSeq(cands, AboveFloor)
  IN StableSortDesc(kept, [id \in Range(kept) |-> Score(m[id], o, maxAct)])

CountDomain(m, sel, dom) == Cardinality({i \in 1..Len(sel) : DomKey(m[sel[i]]) = dom})

\* A cap that lets a fourth entry of a domain through.
DiversityAllowsFour(n) == n <= MaxPerDomain

\* Whether the walk pushes an entry whose domain already has `n` selected.
DiversityAllows(n) == n < MaxPerDomain

\* The token-budgeted selection loop: <<selected ids, charsUsed>>.
RECURSIVE SelectWalk(_, _, _, _, _, _)
SelectWalk(m, o, scored, i, sel, chars) ==
  IF i > Len(scored) THEN <<sel, chars>>
  ELSE LET row == m[scored[i]]
           entryChars == EntryChars(row)
       IN IF chars + entryChars > o.tokenBudget * 4 /\ Len(sel) > 0
            THEN <<sel, chars>>
          ELSE IF ~DiversityAllows(CountDomain(m, sel, DomKey(row)))
            THEN SelectWalk(m, o, scored, i + 1, sel, chars)
          ELSE IF Len(sel) + 1 >= o.limit
            THEN <<Append(sel, scored[i]), chars + entryChars>>
          ELSE SelectWalk(m, o, scored, i + 1, Append(sel, scored[i]), chars + entryChars)

\* A fill loop that never looks at the budget.
SpreadFillAll(m, o, related, chars, added) == added \o related

\* The spreading-activation fill loop: the related ids appended.
RECURSIVE SpreadFill(_, _, _, _, _)
SpreadFill(m, o, related, chars, added) ==
  IF related = <<>> THEN added
  ELSE LET id == Head(related)
           entryChars == EntryChars(m[id])
       IN IF chars + entryChars > o.tokenBudget * 4 THEN added
          ELSE SpreadFill(m, o, Tail(related), chars + entryChars, Append(added, id))

\* A returned object that shows the row as it is after the retrieval bump.
ReturnedAfterBump(m, id, spread) ==
  [id |-> id,
   row |-> [m[id] EXCEPT !.activation = @ + 5, !.retrieval_count = @ + 1],
   spreadingActivation |-> spread]

\* One returned object: the row as read, plus the spread-origin mark.
Returned(m, id, spread) == [id |-> id, row |-> m[id], spreadingActivation |-> spread]

\* retrieve(db, options)
retrieve(m, c, o, order) ==
  LET scored == Ranked(m, o, order)
      walk == SelectWalk(m, o, scored, 1, <<>>, 0)
      sel == walk[1]
      chars == walk[2]
      fill == IF 10 * chars < 9 * (o.tokenBudget * 4) /\ Len(sel) > 0
                THEN SpreadFill(m, o, getSpreadingActivation(m, c, sel, SpreadLimit, order),
                                chars, <<>>)
                ELSE <<>>
  IN IF Len(Candidates(m, o, order)) = 0 THEN <<>>
     ELSE [i \in 1..Len(sel) |-> Returned(m, sel[i], FALSE)]
          \o [i \in 1..Len(fill) |-> Returned(m, fill[i], TRUE)]


(***************************************************************************)
(* Store writes                                                            *)
(***************************************************************************)

\* A memories row.
Row(domain, ptype, titleLen, detailLen, dailyLog, act, rc, lr, status, sup, cor, emb) ==
  [exists |-> TRUE, domain |-> domain, pattern_type |-> ptype, titleLen |-> titleLen,
   detailLen |-> detailLen, dailyLog |-> dailyLog, activation |-> act,
   retrieval_count |-> rc, last_retrieved |-> lr, status |-> status,
   superseded_by |-> sup, corrects |-> cor, embedding |-> emb]

\* FOREIGN KEY (superseded_by / corrects) REFERENCES memories(id), checked when
\* the statement ends: the referenced row exists, or is the row being written.
ForeignKeyOk(m, id, ref) == ref = NULL \/ ref = id \/ Exists(m, ref)

\* ON DELETE CASCADE of co_occurrences: REPLACE deletes the old row first, and
\* with it every edge that has `id` as an endpoint.
CascadeDelete(c, id) ==
  [e \in DOMAIN c |-> IF e[1] = id \/ e[2] = id THEN 0 ELSE c[e]]

\* entry.status || 'active'
UpsertStatus(entry) == IF entry.status \in {NULL, ""} THEN "active" ELSE entry.status

\* upsertMemory(db, entry) : <<memories, co_occurrences>> after INSERT OR REPLACE,
\* or the store unchanged when the statement fails its foreign keys.
upsertMemory(m, c, id, entry) ==
  IF ForeignKeyOk(m, id, entry.superseded_by) /\ ForeignKeyOk(m, id, entry.corrects)
    THEN <<[m EXCEPT ![id] = [entry EXCEPT !.exists = TRUE, !.status = UpsertStatus(entry)]],
           CascadeDelete(c, id)>>
    ELSE <<m, c>>

\* A bump that leaves retrieval_count alone.
bumpActivationOnly(m, id, amount) ==
  IF Exists(m, id)
    THEN [m EXCEPT ![id].activation = @ + amount, ![id].last_retrieved = "now"]
    ELSE m

\* stmts.bumpActivation on one id (an UPDATE of the row, if there is one).
bumpActivation(m, id, amount) ==
  IF Exists(m, id)
    THEN [m EXCEPT ![id].activation = @ + amount,
                   ![id].retrieval_count = @ + 1,
                   ![id].last_retrieved = "now"]
    ELSE m

\* bumpActivations(db, ids, amount) : <<memories, bumped>>
RECURSIVE bumpActivations(_, _, _)
bumpActivations(m, ids, amount) ==
  IF ids = <<>> THEN <<m, 0>>
  ELSE LET rest == bumpActivations(bumpActivation(m, Head(ids), amount), Tail(ids), amount)
       IN <<rest[1], rest[2] + (IF Exists(m, Head(ids)) THEN 1 ELSE 0)>>

\* stmts.insertCoOcc: INSERT ... ON CONFLICT DO UPDATE SET weight = weight + excluded.weight
insertCoOcc(c, a, b, w) == [c EXCEPT ![<<a, b>>] = @ + w]

\* A pair wired in one direction only.
WirePairOneWay(c, a, b) == insertCoOcc(c, a, b, 1)

\* The two inserts the inner loop of wireCoOccurrences runs for the pair (a, b).
WirePair(c, a, b) == insertCoOcc(insertCoOcc(c, a, b, 1), b, a, 1)

\* The pairs (i, j), i < j, of one domain group, in loop order.
PairsOf(g) ==
  LET n == Len(g)
      idx == SelectSeq(Flatten([i \in 1..n |-> [j \in 1..n |-> <<i, j>>]]),
                       LAMBDA p : p[1] < p[2])
  IN [k \in 1..Len(idx) |-> <<g[idx[k][1]], g[idx[k][2]]>>]

RECURSIVE WireAll(_, _)
WireAll(c, pairs) ==
  IF pairs = <<>> THEN c
  ELSE WireAll(WirePair(c, Head(pairs)[1], Head(pairs)[2]), Tail(pairs))

\* byDomain[d] : the listed ids that have a row, grouped under mem.domain || "general".
DomainGroup(m, ids, d) ==
  LET InGroup(id) == Exists(m, id) /\ DomKey(m[id]) = d
  IN SelectSeq(ids, InGroup)

\* A wiring that pairs every listed id that has a row, whatever its domain.
wireAcrossDomains(m, c, ids) ==
  LET HasRow(id) == Exists(m, id)
  IN WireAll(c, PairsOf(SelectSeq(ids, HasRow)))

\* wireCoOccurrences(db, ids) : co_occurrences afterwards.
wireCoOccurrences(m, c, ids) ==
  LET HasRow(id) == Exists(m, id)
      present == SelectSeq(ids, HasRow)
      keys == Distinct([i \in 1..Len(present) |-> DomKey(m[present[i]])])
      groups == [k \in 1..Len(keys) |-> DomainGroup(m, ids, keys[k])]
  IN WireAll(c, Flatten([k \in 1..Len(groups) |->
                           IF Len(groups[k]) < 2 THEN <<>> ELSE PairsOf(groups[k])]))

\* pruneEntries(data): the ids SELECT id FROM memories WHERE activation < 0 finds.
LowActivation(m) == {id \in DOMAIN m : m[id].exists /\ m[id].activation < 0}

\* A prune that deletes what is under 1.0 instead of reporting.
pruneDeleting(m) ==
  [id \in DOMAIN m |-> IF m[id].exists /\ m[id].activation < ActOne THEN NoRow ELSE m[id]]

\* The memories table after pruneEntries(data): it only reads.
pruneEntries(m) == m

\* A decay that takes the factor off the activation.
decaySubtracting(m, num, den) ==
  [id \in DOMAIN m |->
     IF m[id].exists THEN [m[id] EXCEPT !.activation = @ - (num * ActOne) \div den] ELSE m[id]]

\* A decay that passes over deprecated rows.
decayActiveOnly(m, num, den) ==
  [id \in DOMAIN m |->
     IF m[id].exists /\ m[id].status # "deprecated"
       THEN [m[id] EXCEPT !.activation = (@ * num) \div den] ELSE m[id]]

\* stmts.decayAll: UPDATE memories SET activation = activation * (num / den)
decayAll(m, num, den) ==
  [id \in DOMAIN m |->
     IF m[id].exists THEN [m[id] EXCEPT !.activation = (@ * num) \div den] ELSE m[id]]

\* UPDATE memories SET status = 'deprecated', superseded_by = ? WHERE id = ?
DeprecateRow(row, newId) == [row EXCEPT !.status = "deprecated", !.superseded_by = newId]

\* UPDATE memories SET corrects = ? WHERE id = ?
CorrectRow(row, correctedId) == [row EXCEPT !.corrects = correctedId]

\* A deprecate that raises when the old id has no row.
deprecateRaisingNotFound(m, oldId, newId, fk) ==
  IF ~Exists(m, oldId) THEN <<m, 0, TRUE>>
  ELSE IF fk /\ ~ForeignKeyOk(m, oldId, newId) THEN <<m, 0, TRUE>>
  ELSE <<[m EXCEPT ![oldId] = DeprecateRow(@, newId)], 1, FALSE>>

\* deprecateMemory(db, oldId, newId) : <<memories, info.changes, threw>>. `fk` is
\* whether the connection enforces foreign keys: a new id without a row then
\* makes the UPDATE of an existing row throw; no row matched is no error.
deprecateMemory(m, oldId, newId, fk) ==
  IF ~Exists(m, oldId) THEN <<m, 0, FALSE>>
  ELSE IF fk /\ ~ForeignKeyOk(m, oldId, newId) THEN <<m, 0, TRUE>>
  ELSE <<[m EXCEPT ![oldId] = DeprecateRow(@, newId)], 1, FALSE>>

\* markAsCorrection(db, correctionId, correctedId) : <<memories, info.changes, threw>>
markAsCorrection(m, correctionId, correctedId, fk) ==
  IF ~Exists(m, correctionId) THEN <<m, 0, FALSE>>
  ELSE IF fk /\ ~ForeignKeyOk(m, correctionId, correctedId) THEN <<m, 0, TRUE>>
  ELSE <<[m EXCEPT ![correctionId] = CorrectRow(@, correctedId)], 1, FALSE>>

\* UPDATE memories SET embedding = ? WHERE id = ?
setEmbedding(m, id, emb) == IF Exists(m, id) THEN [m EXCEPT ![id].embedding = emb] ELSE m


(***************************************************************************)
(* The engine as a state machine                                           *)
(*                                                                         *)
(*   mem   : memories table, id -> row (NoRow when there is no row)         *)
(*   cooc  : co_occurrences table, <<a, b>> -> weight (0 when no edge)      *)
(*   op    : the operation of the last step, with its arguments and result  *)
(*   ret   : the list the last step's retrieve returned (<<>> otherwise)    *)
(*   writes: number of operations so far that changed a table              *)
(***************************************************************************)

\* Most table-changing operations in one explored run.
MaxWrites == 3

\* The entries written to the store: an id is derived from source or domain
\* and title, so it fixes the text columns. m1 and m3 are what the extractors
\* propose (they always set domain and pattern type), m4 is a rewording of m1
\* proposed under another id (cosine 0.96 to m1); m2, with neither domain nor
\* pattern type, is an entry handed to addEntry or the entries setter.
Catalogue ==
  [m1 |-> [domain |-> "tts", pattern_type |-> "rule", titleLen |-> 30, detailLen |-> 60,
           dailyLog |-> FALSE, vec |-> <<1, 0>>],
   m2 |-> [domain |-> NULL, pattern_type |-> NULL, titleLen |-> 30, detailLen |-> 0,
           dailyLog |-> FALSE, vec |-> <<3, 4>>],
   m3 |-> [domain |-> "tts", pattern_type |-> "fact", titleLen |-> 30, detailLen |-> 100,
           dailyLog |-> FALSE, vec |-> <<7, 24>>],
   m4 |-> [domain |-> "tts", pattern_type |-> "rule", titleLen |-> 30, detailLen |-> 60,
           dailyLog |-> FALSE, vec |-> <<24, 7>>]]

Ids == DOMAIN Catalogue

\* What the embedding oracle returns for the text of entry `id`.
EmbOf(id) == Catalogue[id].vec

Edges(S) == S \X S

EmptyCooc(S) == [e \in Edges(S) |-> 0]

\* Orders in which a SELECT may return rows its ORDER BY leaves tied: one
\* enumeration of the table and its reverse, so that every two rows are met
\* in both relative orders.
RECURSIVE Enumerate(_)
Enumerate(S) ==
  IF S = {} THEN <<>>
  ELSE LET x == CHOOSE y \in S : TRUE IN <<x>> \o Enumerate(S \ {x})

Reverse(s) == [i \in 1..Len(s) |-> s[Len(s) + 1 - i]]

RowOrders(S) == {Enumerate(S), Reverse(Enumerate(S))}

InitialActivation == 5
RetrievalBump == 5
ToolBump == 3
DedupThreshold == 9200

\* The entry the session extractor and the atomizer build for a new id.
IngestEntry(id) ==
  LET e == Catalogue[id]
  IN Row(e.domain, e.pattern_type, e.titleLen, e.detailLen, e.dailyLog,
         InitialActivation, 1, "now", NULL, NULL, NULL, NoEmb)

\* addEntry's record: retrieval_count || 1, activation || 0.5, embedding null,
\* no status, superseded_by or corrects field.
AddEntryRecord(id) == IngestEntry(id)

\* A value assigned through the entries proxy: the row read back from the
\* proxy (all columns kept), or a fresh object with the text columns only.
SetterValue(m, id, readBack) ==
  LET e == Catalogue[id]
  IN IF readBack THEN m[id]
     ELSE Row(e.domain, e.pattern_type, e.titleLen, e.detailLen, e.dailyLog,
              0, 0, NULL, NULL, NULL, NULL, NoEmb)

\* semanticSearch(db, qEmb, 3).some(s => s.similarity > threshold)
TooSimilar(m, qEmb) ==
  \E id \in DOMAIN m :
    m[id].exists /\ m[id].embedding # NoEmb
    /\ cosineSimilarity(qEmb, m[id].embedding) > DedupThreshold

\* The candidate batches of one extractor run.
Batches == {<<"m1">>, <<"m1", "m3">>, <<"m3", "m1">>, <<"m1", "m4">>}

\* The ids the extractors propose.
ExtractedIds == {"m1", "m3"}

\* The id lists bump and wire are called with (one repeats an id).
IdLists == {<<"m2">>, <<"m1", "m3">>, <<"m3", "m2">>, <<"m1", "m2", "m3">>, <<"m2", "m2">>}

\* The (old, new) and (correction, corrected) pairs of the supervision calls.
DeprecatePairs == {<<"m3", "m1">>, <<"m1", "m2">>, <<"m2", "m2">>, <<"m1", NULL>>}
CorrectionPairs == {<<"m1", "m3">>, <<"m2", "m1">>}

\* The argument pairs of the correction tool (both arguments are required).
CliPairs == {<<"m1", "m2">>, <<"m3", "m1">>}

BumpAmounts == {RetrievalBump, ToolBump}

DecayFactors == {<<1, 1>>, <<1, 2>>}

Options(qe, doms, limit, budget) ==
  [queryEmbedding |-> qe, domains |-> doms, limit |-> limit, tokenBudget |-> budget,
   semanticWeight |-> 6, activationWeight |-> 3, domainWeight |-> 1]

\* Option sets retrieve is called with on the evolving store.
EngineOptions ==
  {Options(qe, <<>>, limit, 800) : qe \in {NoEmb, <<1, 0>>}, limit \in {1, 20}}

\* What before_agent_start derives from a prompt: the keyword hints and the
\* embedding (NoEmb when the oracle call failed); limits are the defaults.
PromptOptions ==
  {Options(qe, doms, 30, 800) : qe \in {NoEmb, <<1, 0>>}, doms \in {<<>>, <<"tts">>}}

Init ==
  /\ mem = [id \in Ids |-> NoRow]
  /\ cooc = EmptyCooc(Ids)
  /\ op = [name |-> "init"]
  /\ ret = <<>>
  /\ writes = 0
  /\ OutsideInit

\* A writing operation runs while the run has writes left; it is counted when
\* it changed a table.
CanWrite == writes < MaxWrites

Counted == writes' = writes + (IF mem' # mem \/ cooc' # cooc THEN 1 ELSE 0)

\* An ID dedup that lets every candidate through.
NewEntriesUnchecked(m, ids) == ids

\* The candidates of the batch whose id is not in the store (ID dedup).
NewEntries(m, ids) == SelectSeq(ids, LAMBDA id : ~Exists(m, id))

\* semanticDedup's loop from entry i on: an entry is dropped when a stored
\* embedding or an already kept entry of the batch is more than the threshold
\* close to it.
RECURSIVE DedupWalk(_, _, _, _)
DedupWalk(m, entries, i, kept) ==
  IF i > Len(entries) THEN kept
  ELSE LET qEmb == EmbOf(entries[i])
           dupInBatch == \E k \in 1..Len(kept) :
                           cosineSimilarity(qEmb, EmbOf(kept[k])) > DedupThreshold
       IN DedupWalk(m, entries, i + 1,
                    IF TooSimilar(m, qEmb) \/ dupInBatch THEN kept
                    ELSE Append(kept, entries[i]))

\* A semantic dedup that keeps nothing when the embedding call fails.
semanticDedupDropsOnFailure(m, entries, embOk) ==
  IF embOk THEN DedupWalk(m, entries, 1, <<>>) ELSE <<>>

\* A semantic dedup that keeps every entry.
semanticDedupSkipped(m, entries, embOk) == entries

\* semanticDedup(entries, 0.92): without the oracle every entry is kept.
semanticDedup(m, entries, embOk) ==
  IF embOk THEN DedupWalk(m, entries, 1, <<>>) ELSE entries

\* insertTx(entries): upsert each kept entry, with its embedding when there is one.
RECURSIVE InsertAll(_, _, _, _, _)
InsertAll(m, c, entries, i, withEmb) ==
  IF i > Len(entries) THEN <<m, c>>
  ELSE LET id == entries[i]
           up == upsertMemory(m, c, id, IngestEntry(id))
       IN InsertAll(IF withEmb THEN setEmbedding(up[1], id, EmbOf(id)) ELSE up[1],
                    up[2], entries, i + 1, withEmb)

\* Session extractor main() on one batch of candidates: ID dedup, semantic
\* dedup, the insert transaction, and the second embedding attempt for the
\* entries inserted without one. emb is "ok" (oracle up), "late" (up only for
\* the second attempt) or "down".
IngestSession(ids, emb) ==
  /\ CanWrite
  /\ ret' = <<>>
  /\ UNCHANGED outside
  /\ LET newEntries == NewEntries(mem, ids)
         kept == semanticDedup(mem, newEntries, emb = "ok")
         ins == InsertAll(mem, cooc, kept, 1, emb # "down")
     IN /\ mem' = ins[1]
        /\ cooc' = ins[2]
        /\ op' = [name |-> "ingest", channel |-> "session", ids |-> ids, emb |-> emb,
                  new |-> newEntries, kept |-> kept]
  /\ Counted

\* Atomizer extract, one candidate: ID dedup, upsert, then the embedding batch.
IngestAtomic(id, embOk) ==
  /\ CanWrite
  /\ ret' = <<>>
  /\ UNCHANGED outside
  /\ IF Exists(mem, id)
       THEN /\ UNCHANGED <<mem, cooc>>
            /\ op' = [name |-> "ingest", channel |-> "atomic", id |-> id, outcome |-> "skipped_id"]
     ELSE LET up == upsertMemory(mem, cooc, id, IngestEntry(id))
          IN /\ mem' = (IF embOk THEN setEmbedding(up[1], id, EmbOf(id)) ELSE up[1])
             /\ cooc' = up[2]
             /\ op' = [name |-> "ingest", channel |-> "atomic", id |-> id, outcome |-> "added"]
  /\ Counted

\* addEntry(data, entry) up to the upsert (the embedding arrives in SetEmbedding).
AddEntry(id) ==
  /\ CanWrite
  /\ ret' = <<>>
  /\ UNCHANGED outside
  /\ LET up == upsertMemory(mem, cooc, id, AddEntryRecord(id))
     IN mem' = up[1] /\ cooc' = up[2]
  /\ op' = [name |-> "upsert", via |-> "addEntry", id |-> id, replaced |-> Exists(mem, id)]
  /\ Counted

\* loadHebbian().entries[id] = value
SetEntry(id, readBack) ==
  /\ CanWrite
  /\ readBack => Exists(mem, id)
  /\ ret' = <<>>
  /\ UNCHANGED outside
  /\ LET up == upsertMemory(mem, cooc, id, SetterValue(mem, id, readBack))
     IN mem' = up[1] /\ cooc' = up[2]
  /\ op' = [name |-> "upsert", via |-> "setter", id |-> id, replaced |-> Exists(mem, id)]
  /\ Counted

\* The UPDATE ... SET embedding of addEntry's promise and of embed-missing.
SetEmbedding(id) ==
  /\ CanWrite
  /\ ret' = <<>>
  /\ UNCHANGED outside
  /\ Exists(mem, id)
  /\ mem' = setEmbedding(mem, id, EmbOf(id))
  /\ UNCHANGED cooc
  /\ op' = [name |-> "set_embedding", id |-> id]
  /\ Counted

BumpActivations(ids, amount) ==
  /\ CanWrite
  /\ ret' = <<>>
  /\ UNCHANGED outside
  /\ LET b == bumpActivations(mem, ids, amount)
     IN /\ mem' = b[1]
        /\ op' = [name |-> "bump", ids |-> ids, amount |-> amount, bumped |-> b[2]]
  /\ UNCHANGED cooc
  /\ Counted

WireCoOccurrences(ids) ==
  /\ CanWrite
  /\ ret' = <<>>
  /\ UNCHANGED outside
  /\ cooc' = wireCoOccurrences(mem, cooc, ids)
  /\ UNCHANGED mem
  /\ op' = [name |-> "wire", ids |-> ids]
  /\ Counted

\* decayAll(db, num / den); the factor is applied where the product is exact.
DecayAll(f) ==
  /\ CanWrite
  /\ ret' = <<>>
  /\ UNCHANGED outside
  /\ \A id \in DOMAIN mem : mem[id].exists => (mem[id].activation * f[1]) % f[2] = 0
  /\ mem' = decayAll(mem, f[1], f[2])
  /\ UNCHANGED cooc
  /\ op' = [name |-> "decay", factor |-> f]
  /\ Counted

\* pruneEntries(data) / the prune command: report, no deletion.
PruneEntries ==
  /\ CanWrite
  /\ ret' = <<>>
  /\ UNCHANGED outside
  /\ mem' = pruneEntries(mem)
  /\ UNCHANGED cooc
  /\ op' = [name |-> "prune", low |-> LowActivation(mem)]
  /\ Counted

\* deprecateMemory(db, oldId, newId) on the connection openDb made (foreign
\* keys ON).
DeprecateMemory(oldId, newId) ==
  /\ CanWrite
  /\ ret' = <<>>
  /\ UNCHANGED outside
  /\ UNCHANGED cooc
  /\ LET r == deprecateMemory(mem, oldId, newId, TRUE)
     IN /\ mem' = r[1]
        /\ op' = [name |-> "deprecate", via |-> "lib", old |-> oldId, new |-> newId,
                  changes |-> r[2], threw |-> r[3]]
  /\ Counted

\* markAsCorrection(db, correctionId, correctedId), foreign keys ON.
MarkAsCorrection(correctionId, correctedId) ==
  /\ CanWrite
  /\ ret' = <<>>
  /\ UNCHANGED outside
  /\ UNCHANGED cooc
  /\ LET r == markAsCorrection(mem, correctionId, correctedId, TRUE)
     IN /\ mem' = r[1]
        /\ op' = [name |-> "correct", via |-> "lib", id |-> correctionId,
                  corrected |-> correctedId, changes |-> r[2], threw |-> r[3]]
  /\ Counted

\* The correction tool's deprecate command: the same UPDATE on a connection the
\* tool opens itself without setting PRAGMA foreign_keys, so enforcement is
\* whatever the SQLite build defaults to (fk). After a change the tool prints
\* both rows: reading the fields of a new id without a row throws, the UPDATE
\* already committed.
CliDeprecate(oldId, newId, fk) ==
  /\ CanWrite
  /\ ret' = <<>>
  /\ UNCHANGED outside
  /\ UNCHANGED cooc
  /\ LET r == deprecateMemory(mem, oldId, newId, fk)
     IN /\ mem' = r[1]
        /\ op' = [name |-> "deprecate", via |-> "cli", old |-> oldId, new |-> newId,
                  changes |-> r[2],
                  threw |-> r[3] \/ (r[2] > 0 /\ ~Exists(r[1], newId))]
  /\ Counted

\* The correction tool's correct command, on the same connection.
CliCorrect(correctionId, correctedId, fk) ==
  /\ CanWrite
  /\ ret' = <<>>
  /\ UNCHANGED outside
  /\ UNCHANGED cooc
  /\ LET r == markAsCorrection(mem, correctionId, correctedId, fk)
     IN /\ mem' = r[1]
        /\ op' = [name |-> "correct", via |-> "cli", id |-> correctionId,
                  corrected |-> correctedId, changes |-> r[2],
                  threw |-> r[3] \/ (r[2] > 0 /\ ~Exists(r[1], correctedId))]
  /\ Counted

\* retrieve(db, options): reads only.
Retrieve(o) ==
  /\ \E order \in RowOrders(StoreIds(mem)) : ret' = retrieve(mem, cooc, o, order)
  /\ UNCHANGED outside
  /\ UNCHANGED <<mem, cooc, writes>>
  /\ op' = [name |-> "retrieve", options |-> o]

\* The ids of every returned entry, unfiltered.
AllReturnedIds(patterns) == Take([i \in 1..Len(patterns) |-> patterns[i].id], 20)

\* A handler that cuts the returned list to 20 before it filters.
BumpedIdsCutFirst(patterns) ==
  LET Atomic(e) == e.row.domain \notin {NULL, ""} /\ e.row.pattern_type \notin {NULL, ""}
      kept == SelectSeq(Take(patterns, 20), Atomic)
  IN [i \in 1..Len(kept) |-> kept[i].id]

\* patterns.filter(e => e.domain && e.pattern_type).map(e => e.id).slice(0, 20)
BumpedIds(patterns) ==
  LET Atomic(e) == e.row.domain \notin {NULL, ""} /\ e.row.pattern_type \notin {NULL, ""}
      kept == SelectSeq(patterns, Atomic)
  IN Take([i \in 1..Len(kept) |-> kept[i].id], 20)

\* The before_agent_start handler with the store open and a non-blank prompt:
\* retrieve, then bump and wire the selected ids.
BeforeAgentStart(o) ==
  /\ CanWrite
  /\ UNCHANGED outside
  /\ \E order \in RowOrders(StoreIds(mem)) :
       \E patterns \in {retrieve(mem, cooc, o, order)} :
       \E ids \in {BumpedIds(patterns)} :
          /\ ret' = patterns
          /\ IF Len(patterns) > 0 /\ Len(ids) > 0
               THEN /\ mem' = bumpActivations(mem, ids, RetrievalBump)[1]
                    /\ cooc' = wireCoOccurrences(mem, cooc, ids)
               ELSE UNCHANGED <<mem, cooc>>
          /\ op' = [name |-> "before_agent_start", options |-> o, ids |-> ids]
  /\ Counted

Next ==
  \/ \E ids \in Batches, emb \in {"ok", "late", "down"} : IngestSession(ids, emb)
  \/ \E id \in ExtractedIds, embOk \in BOOLEAN : IngestAtomic(id, embOk)
  \/ \E id \in Ids : AddEntry(id)
  \/ \E id \in Ids, readBack \in BOOLEAN : SetEntry(id, readBack)
  \/ \E id \in Ids : SetEmbedding(id)
  \/ \E ids \in IdLists, amount \in BumpAmounts : BumpActivations(ids, amount)
  \/ \E ids \in IdLists : WireCoOccurrences(ids)
  \/ \E f \in DecayFactors : DecayAll(f)
  \/ PruneEntries
  \/ \E p \in DeprecatePairs : DeprecateMemory(p[1], p[2])
  \/ \E p \in CorrectionPairs : MarkAsCorrection(p[1], p[2])
  \/ \E p \in CliPairs, fk \in BOOLEAN : CliDeprecate(p[1], p[2], fk)
  \/ \E p \in CliPairs, fk \in BOOLEAN : CliCorrect(p[1], p[2], fk)
  \/ \E o \in EngineOptions : Retrieve(o)
  \/ \E o \in PromptOptions : BeforeAgentStart(o)

Spec == Init /\ [][Next]_vars

(***************************************************************************)
(* retrieve and wireCoOccurrences as functions of the store: every store   *)
(* of StoreSize rows drawn from RowKinds, unwired or with all its rows     *)
(* wired once, under every option set of RetrieveOptions and every list of *)
(* WireLists                                                               *)
(***************************************************************************)

\* Rows per store.
StoreSize == 5

\* The rows a slot may hold: none; a tts rule close to the query; a row with
\* no domain and no pattern type whose embedding is under the floor; a
\* deprecated general row of high activation; a general row with no embedding.
RowKinds ==
  {NoRow,
   Row("tts", "rule", 30, 60, FALSE, 5, 1, "now", "active", NULL, NULL, <<1, 0>>),
   Row(NULL, NULL, 30, 0, FALSE, 5, 1, "now", "active", NULL, NULL, <<7, 24>>),
   Row("general", "fact", 30, 100, FALSE, 20, 4, "now", "deprecated", NULL, NULL, <<3, 4>>),
   Row("general", "fact", 30, 100, FALSE, 0, 0, NULL, "active", NULL, NULL, NoEmb)}

\* Token budgets: under one entry (40 chars), a few entries (200 chars), the default.
RetrieveOptions ==
  {Options(qe, doms, limit, budget) :
     qe \in {NoEmb, <<1, 0>>}, doms \in {<<>>, <<"tts">>}, limit \in {2, 30},
     budget \in {10, 50, 800}}

InitDrawn ==
  /\ mem \in [1..StoreSize -> RowKinds]
  /\ \E ids \in {<<>>, [i \in 1..StoreSize |-> i]} :
       cooc = wireCoOccurrences(mem, EmptyCooc(1..StoreSize), ids)
  /\ op = [name |-> "init"]
  /\ ret = <<>>
  /\ writes = 0
  /\ OutsideInit

\* One call on each drawn store: retrieve writes nothing, so a second call
\* would read the same store.
RetrieveCall(o) == op.name = "init" /\ Retrieve(o)

\* The id lists wired on a drawn store (one repeats an id).
WireLists == {<<1, 2, 3>>, <<4, 2>>, [i \in 1..StoreSize |-> i], <<1, 1>>}

\* One wiring of each drawn store.
WireCall(ids) == op.name = "init" /\ WireCoOccurrences(ids)

\* The factors a drawn store is decayed by: 1.0 and 0.8.
CallFactors == {<<1, 1>>, <<4, 5>>}

\* One decay of each drawn store.
DecayCall(f) == op.name = "init" /\ DecayAll(f)

NextCalls ==
  \/ \E o \in RetrieveOptions : RetrieveCall(o)
  \/ \E ids \in WireLists : WireCall(ids)
  \/ \E f \in CallFactors : DecayCall(f)

SpecCalls == InitDrawn /\ [][NextCalls]_vars

(***************************************************************************)
(* Properties of retrieve's returned list                                  *)
(***************************************************************************)

Retrieved == op.name \in {"retrieve", "before_agent_start"}

Ranks(r) == {i \in 1..Len(r) : ~r[i].spreadingActivation}

Spreads(r) == {i \in 1..Len(r) : r[i].spreadingActivation}

RECURSIVE TotalChars(_)
TotalChars(r) == IF r = <<>> THEN 0 ELSE EntryChars(Head(r).row) + TotalChars(Tail(r))

\* C1: no entry of the list retrieve returns, spread fill included, is a
\* deprecated memory.
C1_NoDeprecatedReturned ==
  Retrieved => \A i \in 1..Len(ret) : ret[i].row.status # "deprecated"

\* C2: with a limit of at least 1, retrieve returns at most limit entries,
\* spread entries counted.
C2_AtMostLimit ==
  (Retrieved /\ op.options.limit >= 1) => Len(ret) <= op.options.limit

\* C3: the lengths of detail (or title), plus 20 each, of all returned entries
\* sum to at most tokenBudget * 4, unless the first entry alone is over that,
\* and then it is the only entry.
C3_WithinBudget ==
  Retrieved =>
    \/ TotalChars(ret) <= op.options.tokenBudget * 4
    \/ Len(ret) = 1 /\ EntryChars(ret[1].row) > op.options.tokenBudget * 4

\* C3 witness: under the 200-character budget a call returned ranked and spread
\* entries that fill it so far that no row of the store would still fit.
C3_BudgetBinds ==
  /\ op.name = "retrieve"
  /\ op.options.tokenBudget = 50
  /\ Ranks(ret) # {} /\ Spreads(ret) # {}
  /\ TotalChars(ret) > 150

\* C4: among the entries not marked as spread, no domain (a missing domain
\* counted as "general") occurs more than 3 times.
C4_DomainCap ==
  Retrieved =>
    \A i \in Ranks(ret) :
      Cardinality({j \in Ranks(ret) : DomKey(ret[j].row) = DomKey(ret[i].row)}) <= 3

\* C4 witness: a call returned exactly three ranked "general" entries, one of
\* them with no domain, from a store with more than three live ones.
C4_CapReached ==
  /\ op.name = "retrieve"
  /\ Cardinality({j \in Ranks(ret) : DomKey(ret[j].row) = "general"}) = 3
  /\ \E j \in Ranks(ret) : ret[j].row.domain = NULL
  /\ Cardinality({id \in DOMAIN mem :
                    Exists(mem, id) /\ IsActive(mem[id]) /\ DomKey(mem[id]) = "general"}) > 3

BelowFloor(e) ==
  /\ e.row.embedding # NoEmb
  /\ cosineSimilarity(op.options.queryEmbedding, e.row.embedding) < SemanticFloor

\* C5: with a query embedding, no returned entry has a cosine with the query
\* under 0.30, co-occurrence neighbours of selected entries included.
C5_NoneBelowFloor ==
  (Retrieved /\ op.options.queryEmbedding # NoEmb) =>
    \A i \in 1..Len(ret) : ~BelowFloor(ret[i])

(***************************************************************************)
(* Properties of the store under the operations                            *)
(***************************************************************************)

IsDistinct(s) == \A i, j \in 1..Len(s) : s[i] = s[j] => i = j

\* C6: in every reachable state each stored edge (a, b, w) has its mirror
\* (b, a, w).
C6_EdgesSymmetric ==
  \A e \in DOMAIN cooc : cooc[e] = cooc[<<e[2], e[1]>>]

\* C6 witness: the state right after a wiring that left a pair of distinct
\* rows with weight 2.
C6_WiredTwice ==
  /\ op.name \in {"wire", "before_agent_start"}
  /\ \E e \in DOMAIN cooc : e[1] # e[2] /\ cooc[e] >= 2

\* C7: wireCoOccurrences on a list S of distinct ids that all have a row adds
\* exactly 1 to both directions of every pair of S in one domain (no domain
\* counted as "general") and changes no edge of a cross-domain pair and no
\* edge with an endpoint outside S.
C7_WireEffect ==
  [][(op'.name = "wire" /\ IsDistinct(op'.ids)
        /\ \A i \in 1..Len(op'.ids) : Exists(mem, op'.ids[i]))
     => \A a, b \in DOMAIN mem :
          a # b =>
            cooc'[<<a, b>>] =
              cooc[<<a, b>>]
              + (IF a \in Range(op'.ids) /\ b \in Range(op'.ids)
                    /\ DomKey(mem[a]) = DomKey(mem[b])
                   THEN 1 ELSE 0)]_vars

\* C7 witness: a list of distinct stored ids was wired on a store wired once
\* before: a listed row without domain and a listed "general" row now share
\* weight 2, a listed tts row has no edge to them, and a row outside the list
\* keeps its weight 1.
C7_MixedListWired ==
  /\ op.name = "wire"
  /\ IsDistinct(op.ids)
  /\ \A i \in 1..Len(op.ids) : Exists(mem, op.ids[i])
  /\ \E a, b, c \in Range(op.ids) :
       /\ mem[a].domain = NULL /\ mem[b].domain = "general" /\ mem[c].domain = "tts"
       /\ cooc[<<a, b>>] = 2 /\ cooc[<<b, a>>] = 2
       /\ cooc[<<a, c>>] = 0 /\ cooc[<<c, b>>] = 0
       /\ \E d \in DOMAIN mem \ Range(op.ids) : cooc[<<d, b>>] = 1

\* C8: bumpActivations(ids, amount) on distinct ids adds exactly amount to the
\* activation and 1 to the retrieval_count of each listed id that has a row,
\* leaves every other memory as it was, creates no row, and returns the number
\* of listed ids that have a row.
C8_BumpEffect ==
  [][(op'.name = "bump" /\ IsDistinct(op'.ids))
     => /\ \A id \in DOMAIN mem :
             IF id \in Range(op'.ids) /\ Exists(mem, id)
               THEN /\ Exists(mem', id)
                    /\ mem'[id].activation = mem[id].activation + op'.amount
                    /\ mem'[id].retrieval_count = mem[id].retrieval_count + 1
               ELSE mem'[id] = mem[id]
        /\ op'.bumped = Cardinality({id \in Range(op'.ids) : Exists(mem, id)})]_vars

\* C8 witness: a bump of distinct ids of which some, not all, had a row.
C8_PartlyBumped ==
  /\ op.name = "bump"
  /\ IsDistinct(op.ids)
  /\ op.bumped >= 1 /\ op.bumped < Len(op.ids)
  /\ \E i \in 1..Len(op.ids) : Exists(mem, op.ids[i]) /\ mem[op.ids[i]].retrieval_count >= 2

HasDomainAndType(row) ==
  row.domain \notin {NULL, ""} /\ row.pattern_type \notin {NULL, ""}

\* C9 as stated: after before_agent_start returned N memories, each of them
\* has its retrieval_count raised by 1 and its activation by 0.5.
C9_AllReturnedBumped ==
  [][op'.name = "before_agent_start"
     => \A i \in 1..Len(ret') :
          /\ mem'[ret'[i].id].retrieval_count = mem[ret'[i].id].retrieval_count + 1
          /\ mem'[ret'[i].id].activation = mem[ret'[i].id].activation + RetrievalBump]_vars

\* C9 amended: after before_agent_start returned at most 20 memories that have
\* both a domain and a pattern type, each of those has its retrieval_count
\* raised by 1 and its activation by 0.5, and every other memory, the returned
\* ones without domain or pattern type included, is as it was.
C9_TypedReturnedBumped ==
  [][op'.name = "before_agent_start"
     => LET typed == {ret'[i].id : i \in {j \in 1..Len(ret') : HasDomainAndType(ret'[j].row)}}
        IN Cardinality(typed) <= 20 =>
             \A id \in DOMAIN mem :
               IF id \in typed
                 THEN /\ mem'[id].retrieval_count = mem[id].retrieval_count + 1
                      /\ mem'[id].activation = mem[id].activation + RetrievalBump
                 ELSE mem'[id] = mem[id]]_vars

\* C9 witness: the handler returned a row with domain and pattern type next to
\* one that has neither.
C9_MixedReturn ==
  /\ op.name = "before_agent_start"
  /\ \E i \in 1..Len(ret) : HasDomainAndType(ret[i].row)
  /\ \E i \in 1..Len(ret) : ret[i].row.domain = NULL /\ ret[i].row.pattern_type = NULL
  /\ Len(op.ids) >= 1

\* C10: a memory whose status is 'deprecated' is not 'active' after any
\* operation.
C10_DeprecatedStays ==
  [][\A id \in DOMAIN mem :
       (Exists(mem, id) /\ mem[id].status = "deprecated")
         => ~(Exists(mem', id) /\ mem'[id].status = "active")]_vars

\* C11: no operation lowers the retrieval_count of a stored memory.
C11_CountNeverDecreases ==
  [][\A id \in DOMAIN mem :
       Exists(mem, id) =>
         Exists(mem', id) /\ mem'[id].retrieval_count >= mem[id].retrieval_count]_vars

\* C12: no operation removes a memory id from the store.
C12_IdsNeverRemoved ==
  [][\A id \in DOMAIN mem : Exists(mem, id) => Exists(mem', id)]_vars

\* C12 witness: prune ran on a store holding a row of activation 0, the
\* lowest a row has, and the row is still stored.
C12_PrunedStoreKeepsRows ==
  /\ op.name = "prune"
  /\ op.low = {}
  /\ \E id \in DOMAIN mem : Exists(mem, id) /\ mem[id].activation = 0

\* C13: in every reachable state each memory whose status is 'deprecated' has
\* a superseded_by that is not NULL.
C13_DeprecatedHasSuccessor ==
  \A id \in DOMAIN mem :
    (Exists(mem, id) /\ mem[id].status = "deprecated") => mem[id].superseded_by # NULL

C15_MissingIdIsNotFound ==
  [][(/\ op'.name \in {"deprecate", "correct"}
      /\ ~Exists(mem, IF op'.name = "deprecate" THEN op'.old ELSE op'.id))
     => mem' = mem /\ cooc' = cooc /\ op'.changes = 0 /\ ~op'.threw]_vars

\* C15 witness: a deprecate through the library on an id with no row, in a
\* store that holds the new id, ended with zero changes and no error.
C15_DeprecateOfMissingId ==
  /\ op.name = "deprecate" /\ op.via = "lib"
  /\ ~Exists(mem, op.old) /\ Exists(mem, op.new)
  /\ op.changes = 0 /\ ~op.threw

\* SELECT COUNT(*) FROM memories
RowCount(m) == Cardinality({id \in DOMAIN m : Exists(m, id)})

\* The candidate ids of the ingestion run recorded in o.
CandidatesOf(o) == IF o.channel = "session" THEN Range(o.ids) ELSE {o.id}

\* C16: an ingestion run that directly follows a run of the same extractor on
\* the same candidates adds no memory, whatever the embedding service did in
\* either run.
C16_SecondRunAddsNothing ==
  [][(/\ op.name = "ingest" /\ op'.name = "ingest"
      /\ op'.channel = op.channel
      /\ CandidatesOf(op') = CandidatesOf(op))
     => RowCount(mem') = RowCount(mem)]_vars

\* C17: a session ingestion that obtained embeddings inserts a candidate only
\* if its cosine to every stored embedding and to every candidate kept before
\* it in the batch is at most 0.92; the rows added are exactly the kept
\* candidates, so a rejected one leaves the row count as it was.
C17_InsertedOnlyIfDissimilar ==
  [][(op'.name = "ingest" /\ op'.channel = "session" /\ op'.emb = "ok")
     => /\ \A id \in Ids :
             (~Exists(mem, id) /\ Exists(mem', id)) =>
               /\ \A j \in Ids :
                    (Exists(mem, j) /\ mem[j].embedding # NoEmb)
                      => cosineSimilarity(EmbOf(id), mem[j].embedding) <= DedupThreshold
               /\ \E p \in 1..Len(op'.kept) :
                    /\ op'.kept[p] = id
                    /\ \A q \in 1..(p - 1) :
                         cosineSimilarity(EmbOf(id), EmbOf(op'.kept[q])) <= DedupThreshold
        /\ RowCount(mem') = RowCount(mem) + Len(op'.kept)]_vars

\* C17 witness: a session run with embeddings kept one new candidate and
\* rejected another.
C17_OneKeptOneRejected ==
  /\ op.name = "ingest" /\ op.channel = "session" /\ op.emb = "ok"
  /\ Len(op.kept) >= 1
  /\ Len(op.kept) < Len(op.new)

\* C19: an ingestion run leaves every candidate whose id was already stored
\* exactly as it was: all columns of its row and every co-occurrence edge at it.
C19_ExistingRowUntouched ==
  [][op'.name = "ingest"
     => \A id \in CandidatesOf(op') :
          Exists(mem, id) =>
            /\ mem'[id] = mem[id]
            /\ \A e \in Edges(Ids) : (e[1] = id \/ e[2] = id) => cooc'[e] = cooc[e]]_vars

\* C19 witness: a run met a stored candidate that had been retrieved or had an
\* embedding attached since it was ingested, and another one that had edges.
C19_SkippedChangedRow ==
  /\ op.name = "ingest"
  /\ \E id \in CandidatesOf(op) :
       /\ Exists(mem, id)
       /\ op.channel = "session" => id \notin Range(op.new)
       /\ op.channel = "atomic" => op.outcome = "skipped_id"
       /\ mem[id].retrieval_count > 1
       /\ \E e \in Edges(Ids) : e[1] = id /\ cooc[e] > 0

\* The memories retrieval falls back on without a query embedding: the active
\* ones of the hinted domains, or every active one when there is no hint.
FallbackPool(m, o) ==
  {id \in DOMAIN m :
     /\ Exists(m, id) /\ IsActive(m[id])
     /\ Len(o.domains) > 0 => m[id].domain \in Range(o.domains)}

\* C20: when the embedding call of before_agent_start fails the handler still
\* completes with the query embedding absent, and retrieval ranks the active
\* memories of the hinted domains, or with no hint the active memories by
\* activation (at most 100): every ranked entry is one of them, and the list
\* is not empty when there is one.
C20_FallbackWithoutEmbedding ==
  [][(op'.name = "before_agent_start" /\ op'.options.queryEmbedding = NoEmb)
     => /\ \A i \in Ranks(ret') : ret'[i].id \in FallbackPool(mem, op'.options)
        /\ Cardinality(Ranks(ret')) <= FallbackLimit
        /\ FallbackPool(mem, op'.options) # {} => Ranks(ret') # {}]_vars

\* C20 witness: the handler ran without an embedding and with a domain hint on
\* a store that also holds an active memory outside the hinted domain, and
\* returned ranked entries.
C20_HintedFallbackRan ==
  /\ op.name = "before_agent_start"
  /\ op.options.queryEmbedding = NoEmb
  /\ Len(op.options.domains) > 0
  /\ Ranks(ret) # {}
  /\ \E id \in DOMAIN mem :
       /\ Exists(mem, id) /\ IsActive(mem[id])
       /\ mem[id].domain \notin Range(op.options.domains)

(***************************************************************************)
(* Ingestion at the grain of commits. The store is opened in WAL mode, so  *)
(* a reader on another connection (the plugin, the CLI) sees the state     *)
(* after each commit of a running extractor; op holds the extractor's      *)
(* position between commits.                                               *)
(***************************************************************************)

\* No extractor run is under way.
Idle == op.name \notin {"atomizing", "embedding"}

\* UPDATE memories SET embedding = ? WHERE id = ? for each entry of one
\* embedding batch, in one transaction.
RECURSIVE EmbedAll(_, _)
EmbedAll(m, entries) ==
  IF entries = <<>> THEN m
  ELSE EmbedAll(setEmbedding(m, Head(entries), EmbOf(Head(entries))), Tail(entries))

\* The atomizer's extract command reaches its loop with the candidates `ids`;
\* embOk is whether the embedding service answers during this run.
AtomizerStart(ids, embOk) ==
  /\ Idle /\ CanWrite
  /\ ret' = <<>>
  /\ UNCHANGED outside
  /\ UNCHANGED <<mem, cooc, writes>>
  /\ op' = [name |-> "atomizing", channel |-> "atomic", ids |-> ids, i |-> 1,
            rows |-> NewEntries(mem, ids), toEmbed |-> <<>>, embOk |-> embOk]

\* One iteration of the atomizer's loop: the candidate is skipped when its id
\* is stored, else upserted by a statement that commits on its own.
AtomizerRow ==
  /\ op.name = "atomizing" /\ op.i <= Len(op.ids)
  /\ ret' = <<>>
  /\ UNCHANGED outside
  /\ LET id == op.ids[op.i]
     IN IF Exists(mem, id)
          THEN /\ UNCHANGED <<mem, cooc>>
               /\ op' = [op EXCEPT !.i = @ + 1]
          ELSE LET up == upsertMemory(mem, cooc, id, IngestEntry(id))
               IN /\ mem' = up[1]
                  /\ cooc' = up[2]
                  /\ op' = [op EXCEPT !.i = @ + 1, !.toEmbed = Append(@, id)]
  /\ Counted

\* After the loop: the embeddings of the added entries, one transaction for
\* the batch (of up to 25); a failed batch is logged and skipped.
AtomizerEmbed ==
  /\ op.name = "atomizing" /\ op.i > Len(op.ids)
  /\ ret' = <<>>
  /\ UNCHANGED outside
  /\ mem' = (IF op.embOk THEN EmbedAll(mem, op.toEmbed) ELSE mem)
  /\ UNCHANGED cooc
  /\ op' = [name |-> "done", channel |-> "atomic", rows |-> op.toEmbed, embOk |-> op.embOk]
  /\ Counted

\* Session extractor main() up to the commit of insertTx: ID dedup, semantic
\* dedup, and the rows, with their embeddings when dedup obtained them, in one
\* transaction.
SessionInsert(ids, emb) ==
  /\ Idle /\ CanWrite
  /\ ret' = <<>>
  /\ UNCHANGED outside
  /\ LET newEntries == NewEntries(mem, ids)
         kept == semanticDedup(mem, newEntries, emb = "ok")
         ins == InsertAll(mem, cooc, kept, 1, emb = "ok")
     IN /\ mem' = ins[1]
        /\ cooc' = ins[2]
        /\ op' = [name |-> (IF emb = "late" /\ kept # <<>> THEN "embedding" ELSE "done"),
                  channel |-> "session", rows |-> kept, embOk |-> emb # "down"]
  /\ Counted

\* The second embedding attempt for the entries inserted without one.
SessionEmbed ==
  /\ op.name = "embedding"
  /\ ret' = <<>>
  /\ UNCHANGED outside
  /\ mem' = EmbedAll(mem, op.rows)
  /\ UNCHANGED cooc
  /\ op' = [op EXCEPT !.name = "done"]
  /\ Counted

NextCommits ==
  \/ \E ids \in Batches, embOk \in BOOLEAN : AtomizerStart(ids, embOk)
  \/ AtomizerRow
  \/ AtomizerEmbed
  \/ \E ids \in Batches, emb \in {"ok", "late", "down"} : SessionInsert(ids, emb)
  \/ SessionEmbed

SpecCommits == Init /\ [][NextCommits]_vars

\* C18: whenever another connection reads during or after an ingestion run
\* that reaches the embedding service, it finds either none of the rows the
\* run adds or all of them, each with its embedding.
C18_BatchAllOrNothing ==
  (op.name \in {"atomizing", "embedding", "done"} /\ op.embOk) =>
    \/ \A id \in Range(op.rows) : ~Exists(mem, id)
    \/ \A id \in Range(op.rows) : Exists(mem, id) /\ mem[id].embedding # NoEmb

(***************************************************************************)
(* The plugin process: before_agent_start handlers with getEmbedding and   *)
(* its cache. A handler runs without interruption except at the await of   *)
(* generateEmbeddings, so a call is one step when the prompt is blank or   *)
(* the cache answers, and two steps (call, return) when the oracle is      *)
(* asked. Times are clock ticks; the cache sizes and the lifetime are      *)
(* scaled down from 100 / 50 entries and 300 000 ms.                       *)
(***************************************************************************)

\* embeddingCache.size > 100, scaled.
CacheCap == 2

\* .slice(0, 50): how many of the oldest entries a trim deletes, scaled.
TrimCount == 1

\* cfg.embeddingCacheTtlMs in ticks, scaled.
CacheTtl == 2

\* Last tick of the clock in an explored run.
MaxClock == 2

\* The prompts handed to the handler: the empty one, a whitespace-only one,
\* one about tts whose embedding is m1's, a longer one about tts that has the
\* same first 200 characters and another embedding, and two about comfyui, a
\* domain with no stored memory, whose embedding is orthogonal to every stored
\* one. `key` is prompt.slice(0, 512).slice(0, 200); `vec` is what the oracle
\* gives for prompt.slice(0, 512).
Prompts ==
  [empty  |-> [blank |-> TRUE,  key |-> "",   domains |-> <<>>,      vec |-> NoEmb],
   spaces |-> [blank |-> TRUE,  key |-> "  ", domains |-> <<>>,      vec |-> NoEmb],
   tts    |-> [blank |-> FALSE, key |-> "k1", domains |-> <<"tts">>, vec |-> <<1, 0>>],
   ttsLong |-> [blank |-> FALSE, key |-> "k1", domains |-> <<"tts">>, vec |-> <<3, 4>>],
   q2     |-> [blank |-> FALSE, key |-> "k2", domains |-> <<"comfyui">>, vec |-> <<0, 1>>],
   q3     |-> [blank |-> FALSE, key |-> "k3", domains |-> <<"comfyui">>, vec |-> <<0, 1>>]]

\* embeddingCache.get(cacheKey): the position of the key's entry, 0 if none.
cacheGet(cache, key) ==
  IF \E i \in 1..Len(cache) : cache[i].key = key
    THEN CHOOSE i \in 1..Len(cache) : cache[i].key = key
    ELSE 0

\* A lifetime test that still accepts an entry exactly one lifetime old.
FreshInclusive(ts, now) == now - ts <= CacheTtl

\* Date.now() - cached.ts < cfg.embeddingCacheTtlMs
Fresh(ts, now) == now - ts < CacheTtl

\* Whether getEmbedding answers from the cache.
CacheHit(cache, key, now) ==
  cacheGet(cache, key) # 0 /\ Fresh(cache[cacheGet(cache, key)].ts, now)

\* embeddingCache.set(cacheKey, {embedding, ts}): an existing key keeps its
\* place in the Map's order, a new one goes last.
cacheSet(cache, key, embedding, now) ==
  LET e == [key |-> key, embedding |-> embedding, ts |-> now]
      i == cacheGet(cache, key)
  IN IF i = 0 THEN Append(cache, e) ELSE [cache EXCEPT ![i] = e]

\* A trim that deletes the entries first in the Map's order.
trimFirstInserted(cache) ==
  IF Len(cache) > CacheCap THEN SubSeq(cache, TrimCount + 1, Len(cache)) ELSE cache

\* The positions of the cache sorted by (a, b) => a[1].ts - b[1].ts (stable).
RECURSIVE OldestFirst(_, _)
OldestFirst(cache, n) ==
  IF n = 0 THEN <<>>
  ELSE LET init == OldestFirst(cache, n - 1)
           pos == Cardinality({i \in 1..Len(init) : cache[init[i]].ts <= cache[n].ts})
       IN SubSeq(init, 1, pos) \o <<n>> \o SubSeq(init, pos + 1, Len(init))

\* The cache without the entries at the positions `drop`.
Without(cache, drop) ==
  LET keep == SelectSeq([i \in 1..Len(cache) |-> i], LAMBDA i : i \notin drop)
  IN [j \in 1..Len(keep) |-> cache[keep[j]]]

\* The trim after a set: over the cap, the TrimCount oldest entries go.
trimCache(cache) ==
  IF Len(cache) > CacheCap
    THEN Without(cache, Range(Take(OldestFirst(cache, Len(cache)), TrimCount)))
    ELSE cache

\* The store the plugin opens: m1 ingested with its embedding, m2 added
\* through addEntry (no embedding yet).
PluginStore ==
  LET ins == InsertAll([id \in Ids |-> NoRow], EmptyCooc(Ids), <<"m1">>, 1, TRUE)
  IN upsertMemory(ins[1], ins[2], "m2", AddEntryRecord("m2"))

InitPlugin ==
  /\ mem = PluginStore[1]
  /\ cooc = PluginStore[2]
  /\ op = [name |-> "init"]
  /\ ret = <<>>
  /\ writes = 0
  /\ OutsideInit

\* A new call takes the first slot with no call in it.
FreeSlot(h) ==
  /\ handlers[h].pc = "idle"
  /\ \A g \in HandlerIds : g < h => handlers[g].pc # "idle"

\* Steps 3 to 5 of the handler, after getEmbedding gave `qe`: retrieve with the
\* defaults, then bump and wire the typed entries.
HandlerRest(h, p, qe, source) ==
  /\ \E order \in RowOrders(StoreIds(mem)) :
       LET o == Options(qe, Prompts[p].domains, 30, 800)
           patterns == retrieve(mem, cooc, o, order)
           ids == BumpedIds(patterns)
       IN /\ ret' = patterns
          /\ IF Len(patterns) > 0 /\ Len(ids) > 0
               THEN /\ mem' = bumpActivations(mem, ids, RetrievalBump)[1]
                    /\ cooc' = wireCoOccurrences(mem, cooc, ids)
               ELSE UNCHANGED <<mem, cooc>>
          /\ op' = [name |-> "before_agent_start", options |-> o, ids |-> ids,
                    prompt |-> p, source |-> source]
  /\ Counted

\* before_agent_start on a blank prompt: the handler returns before
\* getEmbedding and retrieve.
HandlerBlank(h, p) ==
  /\ FreeSlot(h) /\ CanWrite
  /\ Prompts[p].blank
  /\ ret' = <<>>
  /\ op' = [name |-> "blank_prompt", prompt |-> p]
  /\ UNCHANGED <<mem, cooc, writes, outside>>

\* before_agent_start on a prompt whose key is cached and fresh: the whole
\* handler, with the cached vector.
HandlerCached(h, p) ==
  /\ FreeSlot(h) /\ CanWrite
  /\ ~Prompts[p].blank
  /\ CacheHit(embeddingCache, Prompts[p].key, clock)
  /\ HandlerRest(h, p, embeddingCache[cacheGet(embeddingCache, Prompts[p].key)].embedding,
                 [from |-> "cache", replaced |-> FALSE, trimmed |-> FALSE])
  /\ UNCHANGED outside

\* before_agent_start up to the await in getEmbedding: no fresh entry, the
\* oracle is asked.
HandlerAsks(h, p) ==
  /\ FreeSlot(h) /\ CanWrite
  /\ ~Prompts[p].blank
  /\ ~CacheHit(embeddingCache, Prompts[p].key, clock)
  /\ handlers' = [handlers EXCEPT ![h] = [pc |-> "awaiting", prompt |-> p]]
  /\ ret' = <<>>
  /\ op' = [name |-> "generateEmbeddings", prompt |-> p,
            expired |-> cacheGet(embeddingCache, Prompts[p].key) # 0]
  /\ UNCHANGED <<mem, cooc, writes, embeddingCache, clock, meta, files, conn>>

\* The oracle answers: the vector is cached, the cache trimmed, and the
\* handler runs to its end.
OracleAnswers(h) ==
  /\ handlers[h].pc = "awaiting"
  /\ LET p == handlers[h].prompt
     IN /\ embeddingCache' =
             trimCache(cacheSet(embeddingCache, Prompts[p].key, Prompts[p].vec, clock))
        /\ HandlerRest(h, p, Prompts[p].vec,
                       [from |-> "oracle",
                        replaced |-> cacheGet(embeddingCache, Prompts[p].key) # 0,
                        trimmed |-> Len(cacheSet(embeddingCache, Prompts[p].key,
                                                 Prompts[p].vec, clock)) > CacheCap])
  /\ handlers' = [handlers EXCEPT ![h] = IdleHandler]
  /\ UNCHANGED <<clock, meta, files, conn>>

\* The oracle call throws: getEmbedding logs and returns null, and the handler
\* runs to its end without a query embedding.
OracleFails(h) ==
  /\ handlers[h].pc = "awaiting"
  /\ HandlerRest(h, handlers[h].prompt, NoEmb,
                 [from |-> "none", replaced |-> FALSE, trimmed |-> FALSE])
  /\ handlers' = [handlers EXCEPT ![h] = IdleHandler]
  /\ UNCHANGED <<embeddingCache, clock, meta, files, conn>>

\* Time passes.
Tick ==
  /\ clock < MaxClock
  /\ clock' = clock + 1
  /\ UNCHANGED <<mem, cooc, op, ret, writes, embeddingCache, handlers, meta, files, conn>>

NextPlugin ==
  \/ \E h \in HandlerIds, p \in DOMAIN Prompts : HandlerBlank(h, p)
  \/ \E h \in HandlerIds, p \in DOMAIN Prompts : HandlerCached(h, p)
  \/ \E h \in HandlerIds, p \in DOMAIN Prompts : HandlerAsks(h, p)
  \/ \E h \in HandlerIds : OracleAnswers(h)
  \/ \E h \in HandlerIds : OracleFails(h)
  \/ Tick

SpecPlugin == InitPlugin /\ [][NextPlugin]_vars

\* C21: a before_agent_start call with an empty or whitespace-only prompt asks
\* for no embedding and still retrieves by activation, so on a store with an
\* active memory it returns entries.
C21_BlankPromptRetrieves ==
  (/\ op.name = "blank_prompt"
   /\ \E id \in DOMAIN mem : Exists(mem, id) /\ IsActive(mem[id]))
  => /\ \A h \in HandlerIds : handlers[h].pc = "idle"
     /\ ret # <<>>

\* C22: a retrieval with a query embedding and domain hints, on a store where
\* no active memory has an embedding but some active memory is of a hinted
\* domain, returns active memories of the hinted domains, not the empty list.
C22_HintPathWithoutEmbeddings ==
  (/\ Retrieved
   /\ op.options.queryEmbedding # NoEmb
   /\ Len(op.options.domains) > 0
   /\ \A id \in DOMAIN mem :
        (Exists(mem, id) /\ IsActive(mem[id])) => mem[id].embedding = NoEmb
   /\ FallbackPool(mem, op.options) # {})
  => /\ ret # <<>>
     /\ \A i \in Ranks(ret) : ret[i].id \in FallbackPool(mem, op.options)

\* C23: retrieve changes no row and no edge, and the list a before_agent_start
\* call returns is retrieve's result on the store as it was before the call's
\* bump and wire: every returned row carries its values from before the bump.
C23_RetrieveReadsBeforeBump ==
  [][/\ op'.name = "retrieve" => (mem' = mem /\ cooc' = cooc)
     /\ op'.name \in {"retrieve", "before_agent_start"} =>
          /\ \E order \in RowOrders(StoreIds(mem)) :
               ret' = retrieve(mem, cooc, op'.options, order)
          /\ \A i \in 1..Len(ret') : ret'[i].row = mem[ret'[i].id]]_vars

\* C23 witness: a handler call bumped what it returned; the store now holds a
\* higher activation than the returned row shows.
C23_ReturnedRowPredatesBump ==
  /\ op.name = "before_agent_start"
  /\ op.ids # <<>>
  /\ \E i \in 1..Len(ret) :
       /\ ret[i].id \in Range(op.ids)
       /\ mem[ret[i].id].activation = ret[i].row.activation + RetrievalBump
       /\ mem[ret[i].id].retrieval_count = ret[i].row.retrieval_count + 1

\* C24: decayAll(factor) multiplies the activation of every memory, deprecated
\* ones included, by the factor in one step and changes no other column and
\* no co-occurrence edge; with factor 1.0 the store is unchanged.
C24_DecayEffect ==
  [][op'.name = "decay"
     => /\ \A id \in DOMAIN mem :
             IF Exists(mem, id)
               THEN /\ mem'[id].activation * op'.factor[2] = mem[id].activation * op'.factor[1]
                    /\ [mem'[id] EXCEPT !.activation = 0] = [mem[id] EXCEPT !.activation = 0]
               ELSE mem'[id] = mem[id]
        /\ cooc' = cooc
        /\ op'.factor[1] = op'.factor[2] => mem' = mem]_vars

\* C24 witness: a decay by 0.8 ran on a wired store holding an active and a
\* deprecated memory, and both activations went down.
C24_DecayedBothKinds ==
  /\ op.name = "decay" /\ op.factor = <<4, 5>>
  /\ \E id \in DOMAIN mem :
       Exists(mem, id) /\ mem[id].status = "deprecated" /\ mem[id].activation = 16
  /\ \E id \in DOMAIN mem :
       Exists(mem, id) /\ mem[id].status = "active" /\ mem[id].activation = 4
  /\ \E e \in DOMAIN cooc : cooc[e] > 0

\* The cache entries (key, vector, timestamp) as a set.
Entries(cache) == Range(cache)

\* C25: getEmbedding answers from the cache only with an entry younger than
\* the lifetime, and then with that entry's vector; otherwise the oracle is
\* asked, its answer replaces the key's entry with the current time, and a
\* failed call leaves the cache as it was.
C25_CacheLifetime ==
  [][/\ (clock' = clock /\ op'.name = "before_agent_start" /\ op'.source.from = "cache") =>
          LET i == cacheGet(embeddingCache, Prompts[op'.prompt].key)
          IN /\ i # 0
             /\ clock - embeddingCache[i].ts < CacheTtl
             /\ op'.options.queryEmbedding = embeddingCache[i].embedding
     /\ (clock' = clock /\ op'.name = "generateEmbeddings" /\ op'.expired) =>
          /\ clock - embeddingCache[cacheGet(embeddingCache, Prompts[op'.prompt].key)].ts
               >= CacheTtl
          /\ \E h \in HandlerIds :
               handlers'[h] = [pc |-> "awaiting", prompt |-> op'.prompt]
     /\ (clock' = clock /\ op'.name = "before_agent_start" /\ op'.source.from = "oracle") =>
          LET mine == {e \in Entries(embeddingCache') : e.key = Prompts[op'.prompt].key}
          IN mine = {[key |-> Prompts[op'.prompt].key,
                      embedding |-> Prompts[op'.prompt].vec, ts |-> clock]}
     /\ (clock' = clock /\ op'.name = "before_agent_start" /\ op'.source.from = "none") =>
          /\ embeddingCache' = embeddingCache
          /\ op'.options.queryEmbedding = NoEmb]_vars

\* C25 witness: the oracle's answer replaced an entry that had outlived the
\* lifetime.
C25_ExpiredEntryReplaced ==
  /\ op.name = "before_agent_start"
  /\ op.source.from = "oracle" /\ op.source.replaced
  /\ clock >= CacheTtl
  /\ \E e \in Entries(embeddingCache) : e.key = Prompts[op.prompt].key /\ e.ts = clock

\* C26: after every getEmbedding call, however the handlers interleave, the
\* cache holds at most the cap, and a trim evicts only entries at least as
\* old as every entry it keeps.
C26_CacheCapOldestFirst ==
  /\ [](Len(embeddingCache) <= CacheCap)
  /\ [][\A e \in Entries(embeddingCache) :
          (\A r \in Entries(embeddingCache') : r.key # e.key) =>
            \A r \in Entries(embeddingCache') : e.ts <= r.ts]_vars

\* C26 witness: with another handler still waiting for the oracle, an answer
\* pushed the cache over the cap and it was trimmed back, keeping an entry
\* that stands first in the Map's order because it was refreshed in place.
C26_TrimmedWhileConcurrent ==
  /\ op.name = "before_agent_start"
  /\ op.source.from = "oracle" /\ op.source.trimmed
  /\ \E h \in HandlerIds : handlers[h].pc = "awaiting"
  /\ Len(embeddingCache) = CacheCap + 1 - TrimCount
  /\ embeddingCache[1].key # Prompts[op.prompt].key
  /\ embeddingCache[1].ts > 0

(***************************************************************************)
(* Ingestion and the embedding back-fill                                   *)
(***************************************************************************)

\* The embed-missing command on the rows of one batch (up to 25): each row
\* with embedding IS NULL gets the embedding of its text; a failed batch is
\* logged and nothing is written.
embedMissing(m, embOk) ==
  [id \in DOMAIN m |->
     IF m[id].exists /\ m[id].embedding = NoEmb /\ embOk
       THEN [m[id] EXCEPT !.embedding = EmbOf(id)]
       ELSE m[id]]

EmbedMissing(embOk) ==
  /\ CanWrite
  /\ ret' = <<>>
  /\ UNCHANGED outside
  /\ mem' = embedMissing(mem, embOk)
  /\ UNCHANGED cooc
  /\ op' = [name |-> "embed_missing", embOk |-> embOk,
            missing |-> {id \in DOMAIN mem : Exists(mem, id) /\ mem[id].embedding = NoEmb}]
  /\ Counted

NextIngest ==
  \/ \E ids \in Batches, emb \in {"ok", "late", "down"} : IngestSession(ids, emb)
  \/ \E id \in ExtractedIds, embOk \in BOOLEAN : IngestAtomic(id, embOk)
  \/ \E id \in Ids : AddEntry(id)
  \/ \E embOk \in BOOLEAN : EmbedMissing(embOk)

SpecIngest == Init /\ [][NextIngest]_vars

\* C27: a session ingestion whose embedding call fails keeps every candidate
\* that passed ID dedup and stores it with a NULL embedding, or with its
\* embedding when the second attempt succeeds; embed-missing then writes an
\* embedding to exactly the rows that had none and changes nothing else, and
\* a failed back-fill changes nothing.
C27_FailedEmbeddingStillInserts ==
  [][/\ (op'.name = "ingest" /\ op'.channel = "session" /\ op'.emb # "ok") =>
          /\ op'.kept = NewEntries(mem, op'.ids)
          /\ \A id \in Range(NewEntries(mem, op'.ids)) :
               /\ Exists(mem', id)
               /\ mem'[id].embedding = (IF op'.emb = "late" THEN EmbOf(id) ELSE NoEmb)
     /\ op'.name = "embed_missing" =>
          /\ \A id \in DOMAIN mem :
               IF Exists(mem, id) /\ mem[id].embedding = NoEmb /\ op'.embOk
                 THEN mem'[id] = [mem[id] EXCEPT !.embedding = EmbOf(id)]
                 ELSE mem'[id] = mem[id]
          /\ cooc' = cooc]_vars

\* C27 witness: m4, a near-duplicate of m1, went in because the service was
\* down, and a back-fill then gave embeddings to the rows that lacked one
\* beside a row that already had its own.
C27_BackfilledAfterFailure ==
  /\ op.name = "embed_missing" /\ op.embOk
  /\ op.missing # {}
  /\ \E id \in DOMAIN mem : Exists(mem, id) /\ id \notin op.missing
  /\ \A id \in DOMAIN mem : Exists(mem, id) => mem[id].embedding # NoEmb
  /\ Exists(mem, "m1") /\ Exists(mem, "m4")

(***************************************************************************)
(* The atomizer's change detection: the extract command over the markdown  *)
(* files, with the hash of each file kept in table meta                    *)
(***************************************************************************)

\* fileHash(content): the first 16 hex digits of the SHA-256; distinct for the
\* contents drawn here.
fileHash(content) ==
  CASE content = "one" -> "c1a0"
    [] content = "two" -> "7b42"
    [] OTHER -> "e3b0"

\* extractAtomics(content, filename) as candidate ids, the files being of one
\* domain.
extractAtomics(content) ==
  CASE content = "one" -> <<"m1">>
    [] content = "two" -> <<"m1", "m3">>
    [] OTHER -> <<>>

\* The order readdir lists the files in.
FileOrder == <<"f1", "f2">>

\* !forceReprocess && command === "extract" && storedHash === currentHash
unchanged(mt, fs, f, force) == ~force /\ mt[f] = fileHash(fs[f].content)

\* allAtomics as <<source_file, id>> pairs, files in scan order.
RECURSIVE allAtomics(_, _, _, _)
allAtomics(mt, fs, force, i) ==
  IF i > Len(FileOrder) THEN <<>>
  ELSE LET f == FileOrder[i]
           ids == extractAtomics(fs[f].content)
       IN (IF unchanged(mt, fs, f, force) THEN <<>>
           ELSE [k \in 1..Len(ids) |-> <<f, ids[k]>>])
          \o allAtomics(mt, fs, force, i + 1)

\* The extract loop over allAtomics: <<memories, co_occurrences, toEmbed>>.
RECURSIVE AtomizeAll(_, _, _, _, _)
AtomizeAll(m, c, atomics, i, toEmbed) ==
  IF i > Len(atomics) THEN <<m, c, toEmbed>>
  ELSE LET id == atomics[i][2]
       IN IF Exists(m, id) THEN AtomizeAll(m, c, atomics, i + 1, toEmbed)
          ELSE LET up == upsertMemory(m, c, id, IngestEntry(id))
               IN AtomizeAll(up[1], up[2], atomics, i + 1, Append(toEmbed, id))

\* The files whose hash the run stores: those with an atomic in allAtomics.
processedFiles(atomics) == {atomics[k][1] : k \in 1..Len(atomics)}

InitFiles ==
  /\ mem = [id \in Ids |-> NoRow]
  /\ cooc = EmptyCooc(Ids)
  /\ op = [name |-> "init"]
  /\ ret = <<>>
  /\ writes = 0
  /\ embeddingCache = <<>>
  /\ clock = 0
  /\ handlers = [h \in HandlerIds |-> IdleHandler]
  /\ meta = [f \in Files |-> NULL]
  /\ files \in [Files -> {[content |-> c, seen |-> FALSE] : c \in Contents}]
  /\ conn = OpenConn

\* The atomizer's extract command, start to end: scan and hash check, the
\* insert loop, the embeddings, the stored hashes.
ExtractRun(force, embOk) ==
  /\ ret' = <<>>
  /\ LET atomics == allAtomics(meta, files, force, 1)
         skippedUnchanged == {f \in Files : unchanged(meta, files, f, force)}
         ins == AtomizeAll(mem, cooc, atomics, 1, <<>>)
     IN /\ mem' = (IF embOk THEN EmbedAll(ins[1], ins[3]) ELSE ins[1])
        /\ cooc' = ins[2]
        /\ meta' = [f \in Files |->
                      IF f \in processedFiles(atomics)
                        THEN fileHash(files[f].content) ELSE meta[f]]
        /\ files' = [f \in Files |->
                       [files[f] EXCEPT !.seen = @ \/ f \notin skippedUnchanged]]
        /\ op' = [name |-> "extract", force |-> force,
                  skippedUnchanged |-> skippedUnchanged,
                  candidates |-> processedFiles(atomics),
                  seenBefore |-> {f \in Files : files[f].seen}]
  /\ Counted
  /\ UNCHANGED <<embeddingCache, clock, handlers, conn>>

\* The user rewrites a file.
EditFile(f, content) ==
  /\ files[f].content # content
  /\ files' = [files EXCEPT ![f] = [content |-> content, seen |-> FALSE]]
  /\ ret' = <<>>
  /\ op' = [name |-> "edit", file |-> f]
  /\ UNCHANGED <<mem, cooc, writes, embeddingCache, clock, handlers, meta, conn>>

NextFiles ==
  \/ \E force \in BOOLEAN, embOk \in BOOLEAN : ExtractRun(force, embOk)
  \/ \E f \in Files, content \in Contents : EditFile(f, content)

SpecFiles == InitFiles /\ [][NextFiles]_vars

\* C28: an extract run without the force flag skips every file that an
\* earlier run has processed and that is byte-identical since (it is counted
\* unchanged and gives no candidate); with the force flag no file is skipped.
C28_ProcessedFileSkipped ==
  op.name = "extract" =>
    IF op.force THEN op.skippedUnchanged = {}
    ELSE \A f \in op.seenBefore :
           f \in op.skippedUnchanged /\ f \notin op.candidates

\* C29: no operation creates a co-occurrence edge from a memory to itself,
\* wiring an id list that names one id twice included.
C29_NoSelfEdge ==
  \A e \in DOMAIN cooc : e[1] = e[2] => cooc[e] = 0

(***************************************************************************)
(* The selection walk of retrieve on stores where one domain fills its cap *)
(***************************************************************************)

\* The rows a slot may hold: none; a tts rule of 80 chars; a long tts rule of
\* 300 chars; a comfyui rule of 50 chars and low activation.
WalkKinds ==
  {NoRow,
   Row("tts", "rule", 30, 60, FALSE, 5, 1, "now", "active", NULL, NULL, NoEmb),
   Row("tts", "rule", 30, 280, FALSE, 4, 1, "now", "active", NULL, NULL, NoEmb),
   Row("comfyui", "rule", 30, 30, FALSE, 2, 1, "now", "active", NULL, NULL, NoEmb)}

\* Budgets of 300 chars and the default; maxEntries 4 and the default.
WalkOptions ==
  {Options(NoEmb, <<>>, limit, budget) : limit \in {4, 30}, budget \in {75, 800}}

InitWalk ==
  /\ mem \in [1..StoreSize -> WalkKinds]
  /\ cooc = EmptyCooc(1..StoreSize)
  /\ op = [name |-> "init"]
  /\ ret = <<>>
  /\ writes = 0
  /\ OutsideInit

NextWalk == \E o \in WalkOptions : RetrieveCall(o)

SpecWalk == InitWalk /\ [][NextWalk]_vars

\* The ids retrieve selected in its walk, in order.
WalkSelected(r) ==
  LET Ranked_(e) == ~e.spreadingActivation
      kept == SelectSeq(r, Ranked_)
  IN [i \in 1..Len(kept) |-> kept[i].id]

\* The candidate at rank i was left out by the domain cap: three selected
\* entries of its domain rank before it.
CapSkipped(m, scored, sel, i) ==
  /\ scored[i] \notin Range(sel)
  /\ Cardinality({k \in 1..(i - 1) : scored[k] \in Range(sel)
                      /\ DomKey(m[scored[k]]) = DomKey(m[scored[i]])}) >= MaxPerDomain

\* C30: in the selection walk a candidate of a domain that already has three
\* selected entries is skipped without ending the walk: a candidate ranked
\* after only selected and cap-skipped candidates, of a domain under the cap,
\* that fits the remaining budget and maxEntries, is selected.
C30_CapSkipNeverEndsWalk ==
  op.name = "retrieve" =>
    \A order \in RowOrders(StoreIds(mem)) :
      ret = retrieve(mem, cooc, op.options, order) =>
        LET scored == Ranked(mem, op.options, order)
            sel == WalkSelected(ret)
        IN \A j \in 1..Len(scored) :
             ( /\ \A i \in 1..(j - 1) :
                    scored[i] \in Range(sel) \/ CapSkipped(mem, scored, sel, i)
               /\ \E i \in 1..(j - 1) : CapSkipped(mem, scored, sel, i)
               /\ CountDomain(mem, sel, DomKey(mem[scored[j]])) < MaxPerDomain
               /\ Len(sel) < op.options.limit
               /\ TotalChars(SelectSeq(ret, LAMBDA e : ~e.spreadingActivation))
                    + EntryChars(mem[scored[j]]) <= op.options.tokenBudget * 4 )
             => scored[j] \in Range(sel)

(***************************************************************************)
(* before_agent_start on stores large enough for the cut at 20 ids: 21     *)
(* rules in seven domains, and four more rows drawn from BumpKinds         *)
(***************************************************************************)

BumpDomains == <<"d1", "d2", "d3", "d4", "d5", "d6", "d7">>

\* The rows of the last four slots: none; a d8 row of high activation with no
\* pattern type; a d8 rule.
BumpKinds ==
  {NoRow,
   Row("d8", NULL, 30, 20, FALSE, 1000, 1, "now", "active", NULL, NULL, NoEmb),
   Row("d8", "rule", 30, 20, FALSE, 100, 1, "now", "active", NULL, NULL, NoEmb)}

\* maxEntries 30 (the default) and 22, maxContextTokens 800.
BumpOptions == {Options(NoEmb, <<>>, limit, 800) : limit \in {22, 30}}

InitBump ==
  /\ \E extra \in [22..25 -> BumpKinds] :
       mem = [i \in 1..25 |->
                IF i <= 21
                  THEN Row(BumpDomains[((i - 1) \div 3) + 1], "rule", 30, 20, FALSE,
                           100 + i, 1, "now", "active", NULL, NULL, NoEmb)
                  ELSE extra[i]]
  /\ cooc = EmptyCooc(1..25)
  /\ op = [name |-> "init"]
  /\ ret = <<>>
  /\ writes = 0
  /\ OutsideInit

\* One prompt on each store.
PromptCall(o) == op.name = "init" /\ BeforeAgentStart(o)

NextBump == \E o \in BumpOptions : PromptCall(o)

SpecBump == InitBump /\ [][NextBump]_vars

\* The positions of the returned list whose entry is one of the first 20 with
\* a domain and a pattern type.
FirstTyped(r) ==
  {i \in 1..Len(r) :
     /\ HasDomainAndType(r[i].row)
     /\ Cardinality({j \in 1..(i - 1) : HasDomainAndType(r[j].row)}) < 20}

\* C31: before_agent_start bumps by 0.5 and wires exactly the first 20
\* returned entries that have a domain and a pattern type, in returned order;
\* every other memory and every edge with an end outside them is as it was,
\* and with no such entry nothing is written.
C31_BumpsFirstTwentyTyped ==
  [][op'.name = "before_agent_start" /\ clock' = clock
     => LET pos == FirstTyped(ret')
            ids == {ret'[i].id : i \in pos}
        IN /\ op'.ids = [k \in 1..Len(op'.ids) |-> ret'[CHOOSE i \in pos :
                            Cardinality({j \in pos : j < i}) = k - 1].id]
           /\ Len(op'.ids) = Cardinality(pos)
           /\ \A id \in DOMAIN mem :
                IF id \in ids
                  THEN /\ mem'[id].activation = mem[id].activation + RetrievalBump
                       /\ mem'[id].retrieval_count = mem[id].retrieval_count + 1
                  ELSE mem'[id] = mem[id]
           /\ \A e \in DOMAIN cooc :
                cooc'[e] = cooc[e] +
                  (IF e[1] # e[2] /\ e[1] \in ids /\ e[2] \in ids
                      /\ DomKey(mem[e[1]]) = DomKey(mem[e[2]]) THEN 1 ELSE 0)
           /\ (ids = {} => mem' = mem /\ cooc' = cooc)]_vars

\* C31 witness: the handler returned more than 20 entries with a domain and a
\* pattern type after one without a pattern type, and bumped 20.
C31_TwentyOfMoreBumped ==
  /\ op.name = "before_agent_start"
  /\ Len(op.ids) = 20
  /\ Cardinality({i \in 1..Len(ret) : HasDomainAndType(ret[i].row)}) > 20
  /\ ~HasDomainAndType(ret[1].row)

(***************************************************************************)
(* getSpreadingActivation on a store with a hub of 22 neighbours           *)
(***************************************************************************)

\* The weights drawn for the edges between memory 2 and memories 3, 4, 24.
SpreadWeights == {0, 1, 5}

\* Memory 1, of 360 chars and high activation, is wired to memories 2..23, the edge to n having been wired n - 1
\* times; memory 2 is wired to 3, 4 and 24 as drawn.
InitSpread ==
  /\ mem = [i \in 1..24 |->
              IF i = 1
                THEN Row("tts", "rule", 30, 340, FALSE, 50, 1, "now", "active", NULL, NULL, NoEmb)
                ELSE Row("tts", "rule", 30, 20, FALSE, 5, 1, "now", "active", NULL, NULL, NoEmb)]
  /\ \E w \in [{3, 4, 24} -> SpreadWeights] :
       cooc = [e \in Edges(1..24) |->
                 IF e[1] = 1 /\ e[2] \in 2..23 THEN e[2] - 1
                 ELSE IF e[2] = 1 /\ e[1] \in 2..23 THEN e[1] - 1
                 ELSE IF e[1] = 2 /\ e[2] \in {3, 4, 24} THEN w[e[2]]
                 ELSE IF e[2] = 2 /\ e[1] \in {3, 4, 24} THEN w[e[1]]
                 ELSE 0]
  /\ op = [name |-> "init"]
  /\ ret = <<>>
  /\ writes = 0
  /\ OutsideInit

\* The id lists and limits getSpreadingActivation is called with.
SpreadCalls ==
  {<<ids, lim>> : ids \in {<<1>>, <<2>>, <<1, 2>>, <<2, 1>>, <<3, 2>>}, lim \in {2, 8, 30}}

\* getSpreadingActivation(db, activeIds, limit): reads only; the returned
\* objects are the memory rows with their spreadBoost (in tenths).
SpreadCall(activeIds, lim) ==
  /\ op.name = "init"
  /\ \E order \in RowOrders(StoreIds(mem)) :
     \E enc \in {SpreadEncounters(cooc, activeIds, Range(activeIds), order)} :
     \E got \in {getSpreadingActivation(mem, cooc, activeIds, lim, order)} :
       ret' = [i \in 1..Len(got) |->
                 [id |-> got[i], row |-> mem[got[i]],
                  spreadBoost |-> SpreadBoost(enc, got[i]), spreadingActivation |-> TRUE]]
  /\ op' = [name |-> "spread", activeIds |-> activeIds, limit |-> lim]
  /\ UNCHANGED <<mem, cooc, writes>>
  /\ UNCHANGED outside

\* retrieve with maxEntries 1 and 3, budgets of 400 and 3200 chars.
SpreadOptions ==
  {Options(NoEmb, <<>>, limit, budget) : limit \in {1, 3}, budget \in {100, 800}}

NextSpread ==
  \/ \E call \in SpreadCalls : SpreadCall(call[1], call[2])
  \/ \E o \in SpreadOptions : RetrieveCall(o)

SpecSpread == InitSpread /\ [][NextSpread]_vars

\* n is among the 20 heaviest neighbours of a.
AmongHeaviest(c, a, n) ==
  /\ c[<<a, n>>] > 0
  /\ Cardinality({b \in StoreIds(mem) : c[<<a, b>>] > c[<<a, n>>]}) < NeighbourLimit

RECURSIVE SumOver(_, _)
SumOver(S, f) ==
  IF S = {} THEN 0
  ELSE LET x == CHOOSE y \in S : TRUE IN f[x] + SumOver(S \ {x}, f)

\* 0.3 times the weights of the edges into n from the active ids that have n
\* among their 20 heaviest neighbours, in tenths.
ExpectedBoost(c, active, n) ==
  3 * SumOver({a \in active : AmongHeaviest(c, a, n)}, [a \in active |-> c[<<a, n>>]])

\* C32: getSpreadingActivation(activeIds, L) returns at most L memories, none
\* of them active, each with a row, in non-increasing order of boost, the
\* boost of n being 0.3 times the summed weights of the edges to n from the
\* active ids that have n among their 20 heaviest neighbours.
C32_SpreadBoostOrder ==
  op.name = "spread" =>
    /\ Len(ret) <= op.limit
    /\ \A i \in 1..Len(ret) :
         /\ ret[i].id \notin Range(op.activeIds)
         /\ ret[i].row.exists
         /\ ret[i].spreadBoost = ExpectedBoost(cooc, Range(op.activeIds), ret[i].id)
         /\ ret[i].spreadBoost > 0
    /\ \A i \in 1..(Len(ret) - 1) : ret[i].spreadBoost >= ret[i + 1].spreadBoost
    /\ \A i, j \in 1..Len(ret) : i # j => ret[i].id # ret[j].id

\* C32 witness: the hub and memory 2 are active, memory 3 is a neighbour of
\* both but beyond the hub's 20 heaviest, and it is returned with the boost
\* of its edge from memory 2 alone.
C32_BoostFromOneOfTwo ==
  /\ op.name = "spread"
  /\ Range(op.activeIds) = {1, 2}
  /\ cooc[<<1, 3>>] > 0
  /\ \E i \in 1..Len(ret) : ret[i].id = 3 /\ ret[i].spreadBoost = 3 * cooc[<<2, 3>>]
  /\ \E i \in 1..Len(ret) : ret[i].id = 4 /\ ret[i].spreadBoost = 3 * (cooc[<<2, 4>>] + cooc[<<1, 4>>])
  /\ cooc[<<2, 4>>] > 0

\* C33: in a list retrieve returns the entries marked as spread are at most 8,
\* come after every unmarked entry, share no id with an unmarked entry, and
\* are there only if the unmarked entries took strictly less than 90% of
\* tokenBudget * 4 characters.
C33_SpreadEntriesPlaced ==
  op.name = "retrieve" =>
    LET marked == Spreads(ret)
        unmarked == Ranks(ret)
    IN /\ Cardinality(marked) <= SpreadLimit
       /\ \A i \in marked, j \in unmarked : j < i /\ ret[i].id # ret[j].id
       /\ marked # {} =>
            10 * TotalChars(SelectSeq(ret, LAMBDA e : ~e.spreadingActivation))
              < 9 * (op.options.tokenBudget * 4)

\* C33 witness: the hub alone was selected and eight of its neighbours,
\* fewer than it has, were appended as spread entries.
C33_EightSpreadAfterHub ==
  /\ op.name = "retrieve"
  /\ Ranks(ret) = {1}
  /\ ret[1].id = 1
  /\ Cardinality(Spreads(ret)) = SpreadLimit
  /\ Cardinality({n \in StoreIds(mem) : cooc[<<1, n>>] > 0}) > SpreadLimit

(***************************************************************************)
(* Scoring on stores that hold a negative activation                       *)
(***************************************************************************)

\* The rows a slot may hold: none; a rule of activation -1.0; of 0.5; of 3.0.
ScoreKinds ==
  {NoRow,
   Row("tts", "rule", 30, 60, FALSE, -10, 1, "now", "active", NULL, NULL, <<1, 0>>),
   Row("tts", "rule", 30, 60, FALSE, 5, 1, "now", "active", NULL, NULL, <<1, 0>>),
   Row("comfyui", "fact", 30, 60, FALSE, 30, 1, "now", "active", NULL, NULL, <<3, 4>>)}

\* With and without a query embedding; no hints, or the hint tts given twice.
ScoreOptions ==
  {Options(qe, doms, 30, 800) : qe \in {NoEmb, <<1, 0>>}, doms \in {<<>>, <<"tts", "tts">>}}

InitScore ==
  /\ mem \in [1..4 -> ScoreKinds]
  /\ cooc = EmptyCooc(1..4)
  /\ op = [name |-> "init"]
  /\ ret = <<>>
  /\ writes = 0
  /\ OutsideInit

NextScore == \E o \in ScoreOptions : RetrieveCall(o)

SpecScore == InitScore /\ [][NextScore]_vars

\* C34: the normalised activation of every candidate retrieve scores lies in
\* [0, 1], whatever the stored activation.
C34_NormalisedActivationInUnit ==
  op.name = "retrieve" =>
    \A order \in RowOrders(StoreIds(mem)) :
      LET cands == Candidates(mem, op.options, order)
          maxAct == MaxActivation(mem, cands)
      IN \A i \in 1..Len(cands) :
           /\ normAct(mem[cands[i]], maxAct) >= 0
           /\ normAct(mem[cands[i]], maxAct) <= maxAct

\* C39: a vector getEmbedding returns for a prompt is the vector the oracle
\* produces for that prompt's text, cache hits included.
C39_EmbeddingOfSameText ==
  (op.name = "before_agent_start" /\ "prompt" \in DOMAIN op
     /\ op.options.queryEmbedding # NoEmb)
    => op.options.queryEmbedding = Prompts[op.prompt].vec

(***************************************************************************)
(* The plugin's life cycle: gateway_start and gateway_stop around the      *)
(* before_agent_start and after_tool_call handlers, on one event loop.     *)
(* A handler runs from one await to the next without interruption; the     *)
(* synchronous part of before_agent_start after getEmbedding is modelled   *)
(* in three steps (retrieve, bump, wire) that keep the thread.             *)
(***************************************************************************)

\* The prompts of this specification.
GatewayPrompts == {"spaces", "tts", "q2"}

\* TOOL_DOMAIN_MAP[event.toolName]: a tool mapped to tts and one not mapped.
ToolDomains == [tts |-> <<"tts">>, read |-> <<>>]

\* A handle that is taken for an open connection whatever its state.
StoreOpenAlways(cn) == TRUE

\* Whether the handle `db` is a connection: the test `if (!db) return`, and
\* what a call on `db` needs in order not to throw.
StoreOpen(cn) == cn.db

\* An event loop that starts a handler while another is between its awaits.
ThreadFreeAlways(hs) == TRUE

\* No handler is between two awaits: the event loop can run another one.
ThreadFree(hs) == \A g \in HandlerIds : hs[g].pc \notin {"retrieved", "bumped"}

\* Whether a statement of prepareStatements runs: the cached statements
\* belong to the connection they were prepared on.
StatementsRun(cn) == cn.stmts # "stale"

\* Whether retrieve reaches getSpreadingActivation, its only use of a cached
\* statement.
SpreadAttempted(m, o, order) ==
  LET walk == SelectWalk(m, o, Ranked(m, o, order), 1, <<>>, 0)
  IN /\ Len(Candidates(m, o, order)) > 0
     /\ Len(walk[1]) > 0
     /\ 10 * walk[2] < 9 * (o.tokenBudget * 4)

\* retrieve(db, options) on the plugin's handle throws.
RetrieveThrows(cn, m, o, order) ==
  ~StoreOpen(cn) \/ (~StatementsRun(cn) /\ SpreadAttempted(m, o, order))

\* The ids after_tool_call bumps: per mapped domain the five rows of highest
\* activation.
ToolIds(m, domains, order) ==
  Flatten([i \in 1..Len(domains) |->
     LET InDomain(id) == Exists(m, id) /\ m[id].domain = domains[i]
     IN Take(ByActivationDesc(m, SelectSeq(order, InDomain)), 5)])

\* The plugin is registered, gateway_start has not run.
InitGateway ==
  /\ mem = PluginStore[1]
  /\ cooc = PluginStore[2]
  /\ op = [name |-> "init"]
  /\ ret = <<>>
  /\ writes = 0
  /\ embeddingCache = <<>>
  /\ clock = 0
  /\ handlers = [h \in HandlerIds |-> IdleHandler]
  /\ meta = [f \in Files |-> NULL]
  /\ files = [f \in Files |-> [content |-> "plain", seen |-> FALSE]]
  /\ conn = [db |-> FALSE, stmts |-> "none"]

\* What a handler that ended hands to the host.
Ended(name, context, threw) ==
  [name |-> name, phase |-> "returned", context |-> context, threw |-> threw,
   open |-> conn.db, matching |-> context]

\* gateway_start: openDb, then getStats, which prepares the statements if
\* none are cached and throws (caught) on stale ones.
GatewayStart ==
  /\ ThreadFree(handlers)
  /\ conn' = [db |-> TRUE, stmts |-> IF conn.stmts = "none" THEN "ready" ELSE conn.stmts]
  /\ op' = [name |-> "gateway_start", threw |-> conn.stmts = "stale"]
  /\ ret' = <<>>
  /\ UNCHANGED <<mem, cooc, writes, embeddingCache, clock, handlers, meta, files>>

\* gateway_stop: closeDb, db = null. The cached statements stay.
GatewayStop ==
  /\ ThreadFree(handlers)
  /\ conn' = [db |-> FALSE, stmts |-> IF conn.stmts = "ready" THEN "stale" ELSE conn.stmts]
  /\ op' = [name |-> "gateway_stop"]
  /\ ret' = <<>>
  /\ UNCHANGED <<mem, cooc, writes, embeddingCache, clock, handlers, meta, files>>

\* before_agent_start up to `await getEmbedding`.
PromptStart(h, p) ==
  /\ ThreadFree(handlers) /\ FreeSlot(h) /\ CanWrite
  /\ ret' = <<>>
  /\ IF ~StoreOpen(conn) \/ Prompts[p].blank
       THEN /\ op' = Ended("before_agent_start", FALSE, FALSE)
            /\ UNCHANGED handlers
       ELSE /\ op' = [name |-> "before_agent_start", phase |-> "awaiting"]
            /\ handlers' = [handlers EXCEPT ![h] =
                 [pc |-> "awaiting", prompt |-> p,
                  hit |-> CacheHit(embeddingCache, Prompts[p].key, clock),
                  qe |-> IF CacheHit(embeddingCache, Prompts[p].key, clock)
                           THEN embeddingCache[cacheGet(embeddingCache, Prompts[p].key)].embedding
                           ELSE NoEmb]]
  /\ UNCHANGED <<mem, cooc, writes, embeddingCache, clock, meta, files, conn>>

\* The await of getEmbedding ends (`ok`: the oracle answered) and the handler
\* runs retrieve on whatever `db` is now.
PromptRetrieve(h, ok) ==
  /\ ThreadFree(handlers)
  /\ handlers[h].pc = "awaiting"
  /\ handlers[h].hit => ok
  /\ LET p == handlers[h].prompt
         qe == IF handlers[h].hit THEN handlers[h].qe
               ELSE IF ok THEN Prompts[p].vec ELSE NoEmb
         o == Options(qe, Prompts[p].domains, 30, 800)
     IN /\ embeddingCache' =
             (IF ~handlers[h].hit /\ ok
                THEN trimCache(cacheSet(embeddingCache, Prompts[p].key, Prompts[p].vec, clock))
                ELSE embeddingCache)
        /\ \E order \in RowOrders(StoreIds(mem)) :
           \E patterns \in {retrieve(mem, cooc, o, order)} :
             IF RetrieveThrows(conn, mem, o, order)
               THEN /\ op' = [Ended("before_agent_start", FALSE, TRUE)
                               EXCEPT !.matching = Len(patterns) > 0]
                    /\ ret' = <<>>
                    /\ handlers' = [handlers EXCEPT ![h] = IdleHandler]
             ELSE IF Len(patterns) = 0
               THEN /\ op' = Ended("before_agent_start", FALSE, FALSE)
                    /\ ret' = patterns
                    /\ handlers' = [handlers EXCEPT ![h] = IdleHandler]
             ELSE /\ op' = [name |-> "before_agent_start", phase |-> "retrieved"]
                  /\ ret' = patterns
                  /\ handlers' = [handlers EXCEPT ![h] =
                       [pc |-> "retrieved", ids |-> BumpedIds(patterns)]]
  /\ UNCHANGED <<mem, cooc, writes, clock, meta, files, conn>>

\* bumpActivations(db, ids, 0.5) of the handler that retrieved; with no id to
\* bump the handler goes on to getStats and returns.
PromptBump(h) ==
  /\ handlers[h].pc = "retrieved"
  /\ ret' = ret
  /\ IF ~StoreOpen(conn) \/ ~StatementsRun(conn)
       THEN /\ op' = [Ended("before_agent_start", FALSE, TRUE) EXCEPT !.matching = TRUE]
            /\ handlers' = [handlers EXCEPT ![h] = IdleHandler]
            /\ UNCHANGED mem
     ELSE IF handlers[h].ids = <<>>
       THEN /\ op' = Ended("before_agent_start", TRUE, FALSE)
            /\ handlers' = [handlers EXCEPT ![h] = IdleHandler]
            /\ UNCHANGED mem
     ELSE /\ op' = [name |-> "before_agent_start", phase |-> "bumped"]
          /\ mem' = bumpActivations(mem, handlers[h].ids, RetrievalBump)[1]
          /\ handlers' = [handlers EXCEPT ![h].pc = "bumped"]
  /\ UNCHANGED <<cooc, embeddingCache, clock, meta, files, conn>>
  /\ Counted

\* wireCoOccurrences(db, ids), getStats, formatContext, return.
PromptWire(h) ==
  /\ handlers[h].pc = "bumped"
  /\ ret' = ret
  /\ IF ~StoreOpen(conn) \/ ~StatementsRun(conn)
       THEN /\ op' = [Ended("before_agent_start", FALSE, TRUE) EXCEPT !.matching = TRUE]
            /\ UNCHANGED cooc
       ELSE /\ op' = Ended("before_agent_start", TRUE, FALSE)
            /\ cooc' = wireCoOccurrences(mem, cooc, handlers[h].ids)
  /\ handlers' = [handlers EXCEPT ![h] = IdleHandler]
  /\ UNCHANGED <<mem, embeddingCache, clock, meta, files, conn>>
  /\ Counted

\* after_tool_call: the whole handler, which has no await.
ToolCall(tool) ==
  /\ ThreadFree(handlers) /\ CanWrite
  /\ ret' = <<>>
  /\ \E order \in RowOrders(StoreIds(mem)) :
     \E ids \in {ToolIds(mem, ToolDomains[tool], order)} :
       IF ~StoreOpen(conn) \/ Len(ToolDomains[tool]) = 0 \/ Len(ids) = 0
         THEN /\ op' = Ended("after_tool_call", FALSE, FALSE)
              /\ UNCHANGED mem
       ELSE IF ~StatementsRun(conn)
         THEN /\ op' = Ended("after_tool_call", FALSE, TRUE)
              /\ UNCHANGED mem
       ELSE /\ op' = Ended("after_tool_call", FALSE, FALSE)
            /\ mem' = bumpActivations(mem, ids, ToolBump)[1]
  /\ UNCHANGED <<cooc, embeddingCache, clock, handlers, meta, files, conn>>
  /\ Counted

NextGateway ==
  \/ GatewayStart
  \/ GatewayStop
  \/ \E h \in HandlerIds, p \in GatewayPrompts : PromptStart(h, p)
  \/ \E h \in HandlerIds, ok \in BOOLEAN : PromptRetrieve(h, ok)
  \/ \E h \in HandlerIds : PromptBump(h)
  \/ \E h \in HandlerIds : PromptWire(h)
  \/ \E tool \in DOMAIN ToolDomains : ToolCall(tool)

SpecGateway == InitGateway /\ [][NextGateway]_vars

\* C35: while the store is not open (before gateway_start, after
\* gateway_stop, or stopped while before_agent_start awaited its embedding),
\* before_agent_start and after_tool_call return to the host without a
\* context and change no memory row and no edge.
C35_ClosedStoreUntouched ==
  [][(op'.name \in {"before_agent_start", "after_tool_call"} /\ ~conn.db)
       => /\ op'.phase = "returned"
          /\ ~op'.context
          /\ mem' = mem
          /\ cooc' = cooc]_vars

\* C35 witness: the gateway stopped while a handler with a matching prompt
\* awaited its embedding; the handler resumed, its retrieve threw on the
\* closed store and it returned nothing.
C35_StoppedWhileAwaiting ==
  /\ op.name = "before_agent_start"
  /\ op.phase = "returned"
  /\ op.threw
  /\ ~op.open
  /\ op.matching

\* C36: under any interleaving of the handlers, no store write occurs between
\* the retrieve, the bump and the wire of one before_agent_start call except
\* that call's own bump and wire.
C36_BumpAndWireBackToBack ==
  [][\A h \in HandlerIds :
       (handlers[h].pc \in {"retrieved", "bumped"} /\ (mem' # mem \/ cooc' # cooc))
         => handlers'[h] # handlers[h]]_vars

\* C36 witness: one handler has bumped and not yet wired while another
\* handler awaits its embedding.
C36_BumpedBesideAwaiting ==
  \E h, g \in HandlerIds :
    /\ handlers[h].pc = "bumped"
    /\ handlers[g].pc = "awaiting"
    /\ Prompts[handlers[g].prompt].domains = <<"tts">>

\* C37: after gateway_stop and gateway_start a before_agent_start whose
\* prompt matches active memories, on the open store, returns a context.
C37_UsableAfterReopen ==
  (op.name = "before_agent_start" /\ op.phase = "returned" /\ op.open /\ op.matching)
    => op.context

\* C38: no memory id occurs twice in a list retrieve returns, whatever the
\* options, a domains list naming one domain twice included.
C38_NoIdReturnedTwice ==
  op.name = "retrieve" =>
    \A i, j \in 1..Len(ret) : i # j => ret[i].id # ret[j].id

(***************************************************************************)
(* Stores made by the ingesters and changed by bumps and decays only       *)
(***************************************************************************)

\* Decay factors of [0, 1]: 0, 0.5 and 1.
UnitFactors == {<<0, 1>>, <<1, 2>>, <<1, 1>>}

\* The store after a first session ingestion of one of the batches.
InitDecay ==
  /\ \E ids \in Batches :
       LET ins == InsertAll([id \in Ids |-> NoRow], EmptyCooc(Ids), ids, 1, TRUE)
       IN mem = ins[1] /\ cooc = ins[2]
  /\ op = [name |-> "init"]
  /\ ret = <<>>
  /\ writes = 0
  /\ OutsideInit

NextDecay ==
  \/ \E ids \in Batches, emb \in {"ok", "down"} : IngestSession(ids, emb)
  \/ \E id \in ExtractedIds, embOk \in BOOLEAN : IngestAtomic(id, embOk)
  \/ \E ids \in IdLists, amount \in BumpAmounts : BumpActivations(ids, amount)
  \/ \E f \in UnitFactors : DecayAll(f)
  \/ PruneEntries

SpecDecay == InitDecay /\ [][NextDecay]_vars

\* C40: in a store filled by the ingesters and changed only by bumps of a
\* positive amount and decays of a factor in [0, 1], no activation is
\* negative and prune reports no entry.
C40_ActivationNeverNegative ==
  /\ \A id \in DOMAIN mem : Exists(mem, id) => mem[id].activation >= 0
  /\ op.name = "prune" => op.low = {}

\* C40 witness: prune ran on a store holding a memory that was bumped and
\* then decayed to half.
C40_PrunedAfterBumpAndDecay ==
  /\ op.name = "prune"
  /\ \E id \in DOMAIN mem :
       /\ Exists(mem, id)
       /\ mem[id].retrieval_count > 1
       /\ mem[id].activation > 0
       /\ mem[id].activation < InitialActivation + ToolBump

====
